---- MODULE Spec2Model ----
(***************************************************************************)
(* Model of the documentation crawler of python-backend:                   *)
(*   app/services/ai/tools/url_extraction.py                               *)
(* The breadth-first crawl (_extract_urls_recursively_bfs), the URL        *)
(* validator (_validate_url_status, _check_url_exists) and the shared LRU  *)
(* validation cache (_get_cached_validation, _set_cached_validation).      *)
(*                                                                         *)
(* Crawls are asyncio coroutines on one event loop: a coroutine runs       *)
(* without interruption from one suspension point to the next.  The        *)
(* suspension points of a crawl are the page fetch, the wait for a         *)
(* semaphore permit, the jitter sleep and the HEAD/GET check.  Acquiring   *)
(* the free asyncio.Lock, acquiring a free semaphore permit and releasing  *)
(* either do not suspend.                                                  *)
(*                                                                         *)
(* URLs are numbers; 0 is the root (main_url) and the       *)
(* numeric order is the string order the code sorts links by.  Link titles *)
(* take no part in any decision of the crawl and are left out of the       *)
(* records.                                                                *)
(*                                                                         *)
(* Spec runs NumCrawls crawls concurrently on a small site; SpecBFS runs   *)
(* one crawl alone on a larger site, against any cache that earlier crawls *)
(* may have left.  enq_log, expanded, last and recency are history         *)
(* variables: they record what the code did and decide nothing.            *)
(***************************************************************************)
EXTENDS Integers, Sequences, FiniteSets, TLC

\* ---------------------------------------------------------------- bounds
\* number of crawl coroutines running on the event loop
NumCrawls == 2
\* non-root URLs of the site that concurrent crawls work on
NumUrls == 2
\* largest max_depth a concurrent crawl's context may carry
MaxDepth == 1
\* non-root URLs of the site that a crawl running alone works on
BfsUrls == 3
\* largest max_depth the context of a crawl running alone may carry
BfsMaxDepth == 2
\* max_urls_per_level of the crawl contexts (200 by default in the source)
MaxUrlsPerLevel == 3
\* MAX_GLOBAL_CACHE_SIZE (1000 in the source), scaled to the URL universe
MAX_GLOBAL_CACHE_SIZE == 2
\* permits of VALIDATION_SEMAPHORE (10 in the source), scaled to NumCrawls
SEMAPHORE_PERMITS == 1
ServiceUrls == 1
MaxRecords == 3         \* records handed to the organizer on its own

Crawls == 1..NumCrawls
main_url == 0
\* a URL of another site, which earlier crawls may have left in the cache
ForeignUrl == NumUrls + 1
Urls == 0..(IF ForeignUrl > BfsUrls THEN ForeignUrl ELSE BfsUrls)

\* ------------------------------------------------------- validation records
\* status_code None
NoStatusCode == 0
NoReason == "none"
\* per_request_cache.get(url) is None
NoRecord == [status |-> "absent", status_code |-> NoStatusCode, reason |-> NoReason]

\* outcomes of one HTTP request of _check_url_exists
HeadOutcomes ==
    { [exc |-> "none", status |-> 200],
      [exc |-> "none", status |-> 405],
      [exc |-> "none", status |-> 404],
      [exc |-> "timeout", status |-> 0] }
GetOutcomes ==
    { [exc |-> "none", status |-> 200],
      [exc |-> "request_error", status |-> 0] }

\* faulty variant: only 405 makes the check fall back to GET
FallsBackToGetOn405Only(head) == head.exc = "none" /\ head.status = 405

\* if status_code in (405, 403): the HEAD answer makes the check send a GET
FallsBackToGet(head) == head.exc = "none" /\ head.status \in {405, 403}

\* _check_url_exists: (status_ok, status_code, reason)
CheckUrlExists(head, get) ==
    IF head.exc = "timeout" THEN <<FALSE, NoStatusCode, "timeout">>
    ELSE IF head.exc = "request_error" THEN <<FALSE, NoStatusCode, "request_error">>
    ELSE IF head.status < 400 THEN <<TRUE, head.status, NoReason>>
    ELSE IF FallsBackToGet(head)
         THEN IF get.exc = "timeout" THEN <<FALSE, NoStatusCode, "timeout">>
              ELSE IF get.exc = "request_error"
                   THEN <<FALSE, NoStatusCode, "request_error">>
              ELSE IF get.status < 400 THEN <<TRUE, get.status, NoReason>>
              ELSE <<FALSE, get.status, "validation_failed">>
    ELSE <<FALSE, head.status, "validation_failed">>

\* the record _validate_url_status builds from the check's result
MakeRecord(res) ==
    [status |-> IF res[1] THEN "verified" ELSE "failed",
     status_code |-> res[2],
     reason |-> res[3]]

\* ------------------------------------------------ the OrderedDict LRU cache
\* GLOBAL_VALIDATION_CACHE is a sequence of [url, rec], oldest first.
CacheKeys(cch) == { cch[i].url : i \in 1..Len(cch) }

CacheIndex(cch, u) == CHOOSE i \in 1..Len(cch) : cch[i].url = u

CacheLookup(cch, u) == cch[CacheIndex(cch, u)].rec

RemoveAt(s, i) == SubSeq(s, 1, i - 1) \o SubSeq(s, i + 1, Len(s))

\* OrderedDict.move_to_end(url)
MoveToEnd(cch, u) ==
    LET i == CacheIndex(cch, u) IN Append(RemoveAt(cch, i), cch[i])

\* faulty variant: an existing key keeps its record
SetItemKeepsFirst(cch, u, r) ==
    IF u \in CacheKeys(cch) THEN cch ELSE Append(cch, [url |-> u, rec |-> r])

\* OrderedDict.__setitem__: an existing key keeps its position
SetItem(cch, u, r) ==
    IF u \in CacheKeys(cch)
    THEN [cch EXCEPT ![CacheIndex(cch, u)] = [url |-> u, rec |-> r]]
    ELSE Append(cch, [url |-> u, rec |-> r])

\* faulty variant: popitem(last=True) drops the entry just written
PopItemLast(cch) == SubSeq(cch, 1, Len(cch) - 1)

\* OrderedDict.popitem(last=False)
PopItemFirst(cch) == Tail(cch)

\* faulty variant: the size test is off by one
OverCapacityLate(cch) == Len(cch) > MAX_GLOBAL_CACHE_SIZE + 1

\* the size test of _set_cached_validation
OverCapacity(cch) == Len(cch) > MAX_GLOBAL_CACHE_SIZE

\* faulty variant: a hit does not move the entry to the end
GetCachedValidationNoMove(cch, u) == cch

\* _get_cached_validation: the cache after the call (a hit is a use)
GetCachedValidationCache(cch, u) ==
    IF u \in CacheKeys(cch) THEN MoveToEnd(cch, u) ELSE cch

\* _get_cached_validation: the value returned
GetCachedValidationResult(cch, u) ==
    IF u \in CacheKeys(cch) THEN CacheLookup(cch, u) ELSE NoRecord

\* _set_cached_validation: the cache after the call
SetCachedValidation(cch, u, r) ==
    LET written == MoveToEnd(SetItem(cch, u, r), u)
    IN IF OverCapacity(written) THEN PopItemFirst(written) ELSE written

\* ------------------------------------------------------------------ helpers
RECURSIVE SortedSeq(_)
\* links_with_titles.sort(key=url) on a duplicate-free list
SortedSeq(S) ==
    IF S = {} THEN <<>>
    ELSE LET m == CHOOSE x \in S : \A y \in S : x <= y
         IN <<m>> \o SortedSeq(S \ {m})

\* faulty variant: the list is never cut
TruncateNothing(s, n) == s

\* urls_with_titles[:max_urls_per_level]
Truncate(s, n) == SubSeq(s, 1, IF Len(s) < n THEN Len(s) ELSE n)

\* faulty variant: the smaller of the two
MaxIsMin(a, b) == IF a > b THEN b ELSE a

\* max(a, b)
Max(a, b) == IF a > b THEN a ELSE b


\* ------------------------------------------------------------------- state
VARIABLES
    site,               \* the URLs the pages of the crawled site link to
    cache,              \* GLOBAL_VALIDATION_CACHE
    sem,                \* free permits of VALIDATION_SEMAPHORE
    cacheLock,          \* holder of GLOBAL_CACHE_LOCK, 0 when free
    pc,                 \* where each crawl coroutine stands
    max_depth,          \* context.max_depth of each crawl
    strict_mode,        \* context.strict_mode of each crawl
    queue,              \* deque of [url, depth]
    visited,
    verified_records,   \* list of [url, depth]
    skipped_links,      \* list of [url, reason, statusCode]
    unverified_links,
    metadata,           \* URLExtractionMetadata
    per_request_cache,
    current,            \* (current_url, current_depth) of the page in hand
    urls_to_process,    \* links of the page still to go through, head first
    processed_count,
    error_count,
    enq_log,            \* history: every URL ever appended to the queue
    expanded,           \* history: every URL whose page was fetched
    last,               \* history: the validation most recently returned
    recency,            \* history: the URLs used in the cache, least recent first
    net_checks,         \* history: the HEAD checks each crawl sent, per URL
    entry,              \* how each crawl was invoked: the agent tool or the API
    requested_mode,     \* context.extraction_mode of each crawl
    root_path_empty,    \* whether the path of main_url has no parts
    browser_available,  \* locals of extract_urls_from_documentation
    extraction_mode,
    spa_detected,
    result,             \* what the tool or the API route returned
    browser_service,    \* the global _browser_service, 0 for None
    services_created,   \* history: how many BrowserService objects were built
    svc_playwright,     \* BrowserService._playwright is set
    svc_browser,        \* BrowserService._browser: 0 for None, else the n-th launch
    launches,           \* history: how many headless browsers were launched
    executor,           \* tasks of the one-worker thread pool, head running
    worker_pos,         \* statements of the running task already executed
    task_result,        \* the future each crawl awaits
    nav_links,          \* what the browser extractor returned to each crawl
    probe,              \* a function of the crawler called on its own: the call
    probe_done,         \* whether the call has returned
    probe_out           \* what it returned

vars == <<site, cache, sem, cacheLock, pc, max_depth, strict_mode, queue, visited,
          verified_records, skipped_links, unverified_links, metadata,
          per_request_cache, current, urls_to_process, processed_count,
          error_count, enq_log, expanded, last, recency, net_checks, entry,
          requested_mode, root_path_empty, browser_available, extraction_mode,
          spa_detected, result, browser_service, services_created, svc_playwright,
          svc_browser, launches, executor, worker_pos, task_result, nav_links, probe,
          probe_done, probe_out>>

\* the inputs of an invocation, fixed when it starts
inputVars == <<entry, requested_mode, root_path_empty>>

\* a function called on its own, outside any crawl
probeVars == <<probe, probe_done, probe_out>>

\* the locals and the result of extract_urls_from_documentation
toolVars == <<browser_available, extraction_mode, spa_detected, result>>

\* the browser service and its thread pool
serviceVars == <<browser_service, services_created, svc_playwright, svc_browser,
                 launches, executor, worker_pos, task_result, nav_links>>

\* the keys of the cache in the order the OrderedDict holds them
KeysInOrder(cch) == [i \in 1..Len(cch) |-> cch[i].url]

\* the use of URL u: it becomes the most recently used
Use(rcy, u) == Append(SelectSeq(rcy, LAMBDA x : x # u), u)

\* The shared cache when the crawls start: empty, or holding one verified
\* entry that an earlier crawl of another site left.
EarlierCaches ==
    { <<>>,
      << [url |-> ForeignUrl,
          rec |-> [status |-> "verified", status_code |-> 200, reason |-> NoReason]] >> }

\* URLExtractionMetadata()
NewMetadata ==
    [totalChecked |-> 0, verified |-> 0, failed |-> 0, unverified |-> 0,
     max_depth |-> 0]

NoValidation == [crawl |-> 0, url |-> 0, rec |-> NoRecord, from |-> "none"]

NoResult == [error |-> FALSE, success |-> FALSE, topics |-> <<>>,
             skippedLinks |-> <<>>, unverifiedLinks |-> <<>>, totalPages |-> 0,
             maxDepth |-> 0, extractionMode |-> "none", spaDetected |-> FALSE]

\* no function is called on its own
NoProbe ==
    /\ probe = [fn |-> "none"]
    /\ probe_done = FALSE
    /\ probe_out = <<>>

\* the browser service before anybody asked for it
ServiceUnused ==
    /\ browser_service = 0
    /\ services_created = 0
    /\ svc_playwright = FALSE
    /\ svc_browser = 0
    /\ launches = 0
    /\ executor = <<>>
    /\ worker_pos = 0
    /\ task_result = [c \in Crawls |-> "none"]
    /\ nav_links = [c \in Crawls |-> <<>>]

\* the state of the tool when it enters the HTTP crawl for requested mode
\* "http": lines 137-139 and 184
HttpModeChosen ==
    /\ entry = [c \in Crawls |-> "tool"]
    /\ requested_mode = [c \in Crawls |-> "http"]
    /\ root_path_empty \in [Crawls -> {TRUE}]
    /\ browser_available = [c \in Crawls |-> FALSE]
    /\ extraction_mode = [c \in Crawls |-> "http"]
    /\ spa_detected = [c \in Crawls |-> FALSE]
    /\ result = [c \in Crawls |-> NoResult]
    /\ ServiceUnused

\* The locals of _extract_urls_recursively_bfs before the while loop.  The
\* first crawl runs with the default strict_mode, the others without it.
Init ==
    /\ site = 0..NumUrls
    /\ cache \in EarlierCaches
    /\ sem = SEMAPHORE_PERMITS
    /\ cacheLock = 0
    /\ pc = [c \in Crawls |-> "loop"]
    /\ max_depth \in [Crawls -> 0..MaxDepth]
    /\ strict_mode = [c \in Crawls |-> c = 1]
    /\ queue = [c \in Crawls |-> <<[url |-> main_url, depth |-> 0]>>]
    /\ visited = [c \in Crawls |-> {main_url}]
    /\ verified_records = [c \in Crawls |-> <<>>]
    /\ skipped_links = [c \in Crawls |-> <<>>]
    /\ unverified_links = [c \in Crawls |-> <<>>]
    /\ metadata = [c \in Crawls |-> NewMetadata]
    /\ per_request_cache = [c \in Crawls |-> [u \in Urls |-> NoRecord]]
    /\ current = [c \in Crawls |-> [url |-> main_url, depth |-> 0]]
    /\ urls_to_process = [c \in Crawls |-> <<>>]
    /\ processed_count = [c \in Crawls |-> 0]
    /\ error_count = [c \in Crawls |-> 0]
    /\ enq_log = [c \in Crawls |-> <<main_url>>]
    /\ expanded = [c \in Crawls |-> {}]
    /\ last = NoValidation
    /\ recency = KeysInOrder(cache)
    /\ net_checks = [c \in Crawls |-> [u \in Urls |-> 0]]
    /\ HttpModeChosen
    /\ NoProbe

\* ------------------------------------------------------ decisions of the loop
\* if current_depth > max_depth: continue
BeyondMaxDepth(depth, maxd) == depth > maxd

\* faulty variant: the membership test against visited is dropped
AlreadyVisitedNever(vis, u) == FALSE

\* if found_url in visited: continue
AlreadyVisited(vis, u) == u \in vis

\* faulty variant: a verified URL is not added to visited
MarkVisitedForgets(vis, u) == vis

\* visited.add(found_url)
MarkVisited(vis, u) == vis \cup {u}

\* faulty variant: every validation record counts as verified
IsVerifiedAlways(rec) == TRUE

\* if validation_record["status"] == "verified"
IsVerified(rec) == rec.status = "verified"

\* faulty variant: the depth test forgets the + 1
MayExpandOffByOne(depth, maxd) == depth <= maxd

\* if current_depth + 1 <= max_depth
MayExpand(depth, maxd) == depth + 1 <= maxd

\* faulty variant: a link gets the depth of the page it was found on
ChildDepthSame(depth) == depth

\* current_depth + 1, the depth of a link found on the page in hand
ChildDepth(depth) == depth + 1

\* faulty variant: the item is appended twice
EnqueueTwice(q, item) == Append(Append(q, item), item)

\* faulty variant: appendleft, which makes the queue a stack
EnqueueLeft(q, item) == <<item>> \o q

\* queue.append((found_url, current_depth + 1))
Enqueue(q, item) == Append(q, item)

\* queue.popleft(): the item taken, and the queue left
PopLeftItem(q) == Head(q)
PopLeftRest(q) == Tail(q)

\* faulty variant: the semaphore never blocks
SemaphoreLockedNever(s) == FALSE

\* Semaphore.locked()
SemaphoreLocked(s) == s = 0

\* faulty variant: nothing is kept in the per-crawl cache
RememberLocalNothing(local, u, rec) == local

\* faulty variant: the per-crawl cache keeps verified records only
RememberLocalVerifiedOnly(prc, u, rec) ==
    IF rec.status = "verified" THEN [prc EXCEPT ![u] = rec] ELSE prc

\* per_request_cache[url] = record
RememberLocal(prc, u, rec) == [prc EXCEPT ![u] = rec]

\* faulty variant: the reason of the record is dropped
SkipReasonForgotten(rec) == "validation_failed"

\* reason = validation_record.get("reason") or "validation_failed"
SkipReason(rec) == IF rec.reason = NoReason THEN "validation_failed" ELSE rec.reason

\* SkippedLink(url=found_url, reason=reason, statusCode=status_code)
Skipped(u, rec) == [url |-> u, reason |-> SkipReason(rec), statusCode |-> rec.status_code]

\* faulty variant: failed links are reported as unverified in strict mode too
ReportsUnverifiedAlways(strict) == TRUE

\* if not strict_mode: the failed link is also reported as unverified
ReportsUnverified(strict) == ~strict

\* the organizer's "skippedLinks" and "unverifiedLinks" of the result
SkippedLinksOut(skipped) == skipped
UnverifiedLinksOut(unverified, strict) == IF ~strict THEN unverified ELSE <<>>

\* faulty variant: a page-fetch error ends the crawl
AfterFetchErrorReturns == "done"

\* except Exception: error_count += 1; continue
AfterFetchError == "loop"

\* faulty variant: only verified links are counted as checked
TotalCheckedVerifiedOnly(n, rec) == IF IsVerified(rec) THEN n + 1 ELSE n

\* metadata.totalChecked += 1, whatever the record says
TotalCheckedAfter(n, rec) == n + 1

Bookkeeping == <<max_depth, strict_mode, processed_count, error_count>>

\* Lines 325-344: what the loop body does with the validation record of
\* found_url, the head of urls_to_process, then moves on to the next link.
ProcessRecord(c, u, rec) ==
    LET d == ChildDepth(current[c].depth) IN
    /\ urls_to_process' = [urls_to_process EXCEPT ![c] = Tail(@)]
    /\ IF IsVerified(rec)
       THEN /\ visited' = [visited EXCEPT ![c] = MarkVisited(@, u)]
            /\ metadata' = [metadata EXCEPT
                   ![c].totalChecked = TotalCheckedAfter(@, rec),
                   ![c].verified = @ + 1,
                   ![c].max_depth = Max(@, d)]
            /\ verified_records' = [verified_records EXCEPT
                   ![c] = Append(@, [url |-> u, depth |-> d])]
            /\ IF MayExpand(current[c].depth, max_depth[c])
               THEN /\ queue' = [queue EXCEPT
                          ![c] = Enqueue(@, [url |-> u, depth |-> d])]
                    /\ enq_log' = [enq_log EXCEPT ![c] = Append(@, u)]
               ELSE UNCHANGED <<queue, enq_log>>
            /\ UNCHANGED <<skipped_links, unverified_links>>
       ELSE /\ metadata' = [metadata EXCEPT
                   ![c].totalChecked = TotalCheckedAfter(@, rec),
                   ![c].failed = @ + 1,
                   ![c].unverified =
                       IF ReportsUnverified(strict_mode[c]) THEN @ + 1 ELSE @]
            /\ skipped_links' = [skipped_links EXCEPT
                   ![c] = Append(@, Skipped(u, rec))]
            /\ unverified_links' = [unverified_links EXCEPT
                   ![c] = IF ReportsUnverified(strict_mode[c])
                          THEN Append(@, Skipped(u, rec)) ELSE @]
            /\ UNCHANGED <<visited, verified_records, queue, enq_log>>

\* ------------------------------------------------------------------ actions
\* while queue: popleft; the page fetch is awaited.
Dequeue(c) ==
    /\ pc[c] = "loop"
    /\ queue[c] # <<>>
    /\ cacheLock = 0
    /\ current' = [current EXCEPT ![c] = PopLeftItem(queue[c])]
    /\ queue' = [queue EXCEPT ![c] = PopLeftRest(@)]
    /\ processed_count' = [processed_count EXCEPT ![c] = @ + 1]
    /\ pc' = [pc EXCEPT ![c] =
                IF BeyondMaxDepth(PopLeftItem(queue[c]).depth, max_depth[c])
                THEN "loop" ELSE "fetch"]
    /\ UNCHANGED <<site, cache, sem, cacheLock, max_depth, strict_mode, visited,
                   verified_records, skipped_links, unverified_links, metadata,
                   per_request_cache, urls_to_process, error_count, enq_log,
                   expanded, last, recency, net_checks,
                   inputVars, probeVars, toolVars, serviceVars>>

\* _extract_urls_from_html returns the page's relevant links, free of
\* duplicates and sorted by URL; the loop keeps the first max_urls_per_level.
FetchPage(c) ==
    /\ pc[c] = "fetch"
    /\ \E links \in SUBSET site :
          urls_to_process' = [urls_to_process EXCEPT
              ![c] = Truncate(SortedSeq(links), MaxUrlsPerLevel)]
    /\ expanded' = [expanded EXCEPT ![c] = @ \cup {current[c].url}]
    /\ pc' = [pc EXCEPT ![c] = "links"]
    /\ UNCHANGED <<site, cache, sem, cacheLock, max_depth, strict_mode, queue, visited,
                   verified_records, skipped_links, unverified_links, metadata,
                   per_request_cache, current, processed_count, error_count,
                   enq_log, last, recency, net_checks,
                   inputVars, probeVars, toolVars, serviceVars>>

\* _extract_urls_from_html raises (timeout, HTTP error): except ... continue
FetchFails(c) ==
    /\ pc[c] = "fetch"
    /\ error_count' = [error_count EXCEPT ![c] = @ + 1]
    /\ expanded' = [expanded EXCEPT ![c] = @ \cup {current[c].url}]
    /\ pc' = [pc EXCEPT ![c] = AfterFetchError]
    /\ UNCHANGED <<site, cache, sem, cacheLock, max_depth, strict_mode, queue, visited,
                   verified_records, skipped_links, unverified_links, metadata,
                   per_request_cache, current, urls_to_process, processed_count,
                   enq_log, last, recency, net_checks,
                   inputVars, probeVars, toolVars, serviceVars>>

\* the for loop is exhausted: back to the while test
LinksDone(c) ==
    /\ pc[c] = "links"
    /\ urls_to_process[c] = <<>>
    /\ pc' = [pc EXCEPT ![c] = "loop"]
    /\ UNCHANGED <<site, cache, sem, cacheLock, max_depth, strict_mode, queue, visited,
                   verified_records, skipped_links, unverified_links, metadata,
                   per_request_cache, current, urls_to_process, processed_count,
                   error_count, enq_log, expanded, last, recency, net_checks,
                   inputVars, probeVars, toolVars, serviceVars>>

\* if found_url in visited: continue
SkipVisited(c) ==
    /\ pc[c] = "links"
    /\ urls_to_process[c] # <<>>
    /\ AlreadyVisited(visited[c], Head(urls_to_process[c]))
    /\ urls_to_process' = [urls_to_process EXCEPT ![c] = Tail(@)]
    /\ UNCHANGED <<site, cache, sem, cacheLock, pc, max_depth, strict_mode, queue,
                   visited, verified_records, skipped_links, unverified_links,
                   metadata, per_request_cache, current, processed_count,
                   error_count, enq_log, expanded, last, recency, net_checks,
                   inputVars, probeVars, toolVars, serviceVars>>

\* _validate_url_status, line 457: the per-crawl cache answers
ValidateLocalHit(c) ==
    /\ pc[c] = "links"
    /\ urls_to_process[c] # <<>>
    /\ LET u == Head(urls_to_process[c]) IN
       /\ ~AlreadyVisited(visited[c], u)
       /\ per_request_cache[c][u] # NoRecord
       /\ ProcessRecord(c, u, per_request_cache[c][u])
       /\ last' = [crawl |-> c, url |-> u, rec |-> per_request_cache[c][u],
                   from |-> "local"]
    /\ UNCHANGED <<site, cache, sem, cacheLock, pc, per_request_cache, current,
                   expanded, recency, net_checks, Bookkeeping,
                   inputVars, probeVars, toolVars, serviceVars>>

\* _validate_url_status, lines 460-463: the shared cache answers
ValidateGlobalHit(c) ==
    /\ pc[c] = "links"
    /\ urls_to_process[c] # <<>>
    /\ cacheLock = 0
    /\ LET u == Head(urls_to_process[c])
           cached == GetCachedValidationResult(cache, u) IN
       /\ ~AlreadyVisited(visited[c], u)
       /\ per_request_cache[c][u] = NoRecord
       /\ cached # NoRecord
       /\ cache' = GetCachedValidationCache(cache, u)
       /\ per_request_cache' = [per_request_cache EXCEPT
              ![c] = RememberLocal(@, u, cached)]
       /\ ProcessRecord(c, u, cached)
       /\ last' = [crawl |-> c, url |-> u, rec |-> cached, from |-> "global"]
       /\ recency' = Use(recency, u)
    /\ UNCHANGED <<site, sem, cacheLock, pc, current, expanded, net_checks, Bookkeeping,
                   inputVars, probeVars, toolVars, serviceVars>>

\* _validate_url_status, line 465: a miss in both caches; the permit is free
\* and the coroutine goes to sleep holding it, or it waits for a permit.
ValidateMiss(c) ==
    /\ pc[c] = "links"
    /\ urls_to_process[c] # <<>>
    /\ cacheLock = 0
    /\ LET u == Head(urls_to_process[c]) IN
       /\ ~AlreadyVisited(visited[c], u)
       /\ per_request_cache[c][u] = NoRecord
       /\ GetCachedValidationResult(cache, u) = NoRecord
    /\ IF SemaphoreLocked(sem)
       THEN /\ pc' = [pc EXCEPT ![c] = "sem_wait"]
            /\ sem' = sem
       ELSE /\ pc' = [pc EXCEPT ![c] = "sleep"]
            /\ sem' = sem - 1
    /\ UNCHANGED <<site, cache, cacheLock, max_depth, strict_mode, queue, visited,
                   verified_records, skipped_links, unverified_links, metadata,
                   per_request_cache, current, urls_to_process, processed_count,
                   error_count, enq_log, expanded, last, recency, net_checks,
                   inputVars, probeVars, toolVars, serviceVars>>

\* a waiter of VALIDATION_SEMAPHORE is woken with a permit
AcquirePermit(c) ==
    /\ pc[c] = "sem_wait"
    /\ ~SemaphoreLocked(sem)
    /\ sem' = sem - 1
    /\ pc' = [pc EXCEPT ![c] = "sleep"]
    /\ UNCHANGED <<site, cache, cacheLock, max_depth, strict_mode, queue, visited,
                   verified_records, skipped_links, unverified_links, metadata,
                   per_request_cache, current, urls_to_process, processed_count,
                   error_count, enq_log, expanded, last, recency, net_checks,
                   inputVars, probeVars, toolVars, serviceVars>>

\* asyncio.sleep(random.uniform(0, 0.1)) is over; the HEAD request is sent
JitterDone(c) ==
    /\ pc[c] = "sleep"
    /\ pc' = [pc EXCEPT ![c] = "check"]
    /\ net_checks' = [net_checks EXCEPT ![c][Head(urls_to_process[c])] = @ + 1]
    /\ UNCHANGED <<site, cache, sem, cacheLock, max_depth, strict_mode, queue, visited,
                   verified_records, skipped_links, unverified_links, metadata,
                   per_request_cache, current, urls_to_process, processed_count,
                   error_count, enq_log, expanded, last, recency,
                   inputVars, probeVars, toolVars, serviceVars>>

\* _check_url_exists returns: the permit is released, the record is written
\* to both caches (lines 469-477) and the loop body goes on with it.
CheckDone(c) ==
    /\ pc[c] = "check"
    /\ cacheLock = 0
    /\ \E head \in HeadOutcomes, get \in GetOutcomes :
         LET u == Head(urls_to_process[c])
             record == MakeRecord(CheckUrlExists(head, get)) IN
         /\ per_request_cache' = [per_request_cache EXCEPT
                ![c] = RememberLocal(@, u, record)]
         /\ cache' = SetCachedValidation(cache, u, record)
         /\ ProcessRecord(c, u, record)
         /\ last' = [crawl |-> c, url |-> u, rec |-> record, from |-> "network"]
         /\ recency' = Use(recency, u)
    /\ sem' = sem + 1
    /\ pc' = [pc EXCEPT ![c] = "links"]
    /\ UNCHANGED <<site, cacheLock, current, expanded, net_checks, Bookkeeping,
                   inputVars, probeVars, toolVars, serviceVars>>

\* the queue is empty: the function returns its payload
Return(c) ==
    /\ pc[c] = "loop"
    /\ queue[c] = <<>>
    /\ pc' = [pc EXCEPT ![c] = "done"]
    /\ UNCHANGED <<site, cache, sem, cacheLock, max_depth, strict_mode, queue, visited,
                   verified_records, skipped_links, unverified_links, metadata,
                   per_request_cache, current, urls_to_process, processed_count,
                   error_count, enq_log, expanded, last, recency, net_checks,
                   inputVars, probeVars, toolVars, serviceVars>>

Next ==
    \E c \in Crawls :
        \/ Dequeue(c)
        \/ FetchPage(c)
        \/ FetchFails(c)
        \/ LinksDone(c)
        \/ SkipVisited(c)
        \/ ValidateLocalHit(c)
        \/ ValidateGlobalHit(c)
        \/ ValidateMiss(c)
        \/ AcquirePermit(c)
        \/ JitterDone(c)
        \/ CheckDone(c)
        \/ Return(c)

Spec == Init /\ [][Next]_vars

\* ------------------------------------------- one crawl alone on a larger site
\* every record _validate_url_status can build
RecordValues ==
    { MakeRecord(CheckUrlExists(h, g)) : h \in HeadOutcomes, g \in GetOutcomes }

\* what earlier crawls of the process may have left in the shared cache
RECURSIVE CachesOfLen(_)
CachesOfLen(n) ==
    IF n = 0 THEN { <<>> }
    ELSE { Append(cch, [url |-> u, rec |-> r]) :
             cch \in CachesOfLen(n - 1), u \in 1..BfsUrls, r \in RecordValues }

LeftoverCaches ==
    { cch \in UNION { CachesOfLen(n) : n \in 0..MAX_GLOBAL_CACHE_SIZE } :
        \A i, j \in 1..Len(cch) : cch[i].url = cch[j].url => i = j }

\* the crawl that runs alone
Solo == CHOOSE c \in Crawls : \A d \in Crawls : c <= d

InitBFS ==
    /\ site = 0..BfsUrls
    /\ cache \in LeftoverCaches
    /\ sem = SEMAPHORE_PERMITS
    /\ cacheLock = 0
    /\ pc = [c \in Crawls |-> IF c = Solo THEN "loop" ELSE "off"]
    /\ max_depth \in [Crawls -> 0..BfsMaxDepth]
    /\ \A c \in Crawls : c # Solo => max_depth[c] = 0
    /\ strict_mode \in [Crawls -> BOOLEAN]
    /\ \A c \in Crawls : c # Solo => strict_mode[c]
    /\ queue = [c \in Crawls |-> <<[url |-> main_url, depth |-> 0]>>]
    /\ visited = [c \in Crawls |-> {main_url}]
    /\ verified_records = [c \in Crawls |-> <<>>]
    /\ skipped_links = [c \in Crawls |-> <<>>]
    /\ unverified_links = [c \in Crawls |-> <<>>]
    /\ metadata = [c \in Crawls |-> NewMetadata]
    /\ per_request_cache = [c \in Crawls |-> [u \in Urls |-> NoRecord]]
    /\ current = [c \in Crawls |-> [url |-> main_url, depth |-> 0]]
    /\ urls_to_process = [c \in Crawls |-> <<>>]
    /\ processed_count = [c \in Crawls |-> 0]
    /\ error_count = [c \in Crawls |-> 0]
    /\ enq_log = [c \in Crawls |-> <<main_url>>]
    /\ expanded = [c \in Crawls |-> {}]
    /\ last = NoValidation
    /\ recency = KeysInOrder(cache)
    /\ net_checks = [c \in Crawls |-> [u \in Urls |-> 0]]
    /\ HttpModeChosen
    /\ NoProbe

\* the permit is always free for a crawl running alone: no AcquirePermit
NextBFS ==
    \/ Dequeue(Solo)
    \/ FetchPage(Solo)
    \/ FetchFails(Solo)
    \/ LinksDone(Solo)
    \/ SkipVisited(Solo)
    \/ ValidateLocalHit(Solo)
    \/ ValidateGlobalHit(Solo)
    \/ ValidateMiss(Solo)
    \/ JitterDone(Solo)
    \/ CheckDone(Solo)
    \/ Return(Solo)

SpecBFS == InitBFS /\ [][NextBFS]_vars

\* The crawl never stops of itself before it returns: the page fetch and the
\* HEAD/GET check run under a timeout and the jitter sleep is finite.
FairSpecBFS == SpecBFS /\ WF_vars(NextBFS)

\* ------------------------------------- the tool, the API and the browser
\* everything the crawl loop owns, but for the position of the coroutine
bfsVars == <<site, cache, sem, cacheLock, max_depth, strict_mode, queue, visited,
             verified_records, skipped_links, unverified_links, metadata,
             per_request_cache, current, urls_to_process, processed_count,
             error_count, enq_log, expanded, last, recency, net_checks>>

\* requested "browser": the browser if it is there, else HTTP
ModeForBrowserRequest(avail) == IF avail THEN "browser" ELSE "http"

\* requested "auto" with a browser: the browser for a single-page application
ModeForSpa(spa) == IF spa THEN "browser" ELSE "http"

\* if extraction_mode == "browser" and browser_available
UsesBrowser(mode, avail) == mode = "browser" /\ avail

\* faulty variant: the mode stays "browser" when the browser extractor raised
ModeAfterBrowserErrorKept == "browser"

\* except Exception: extraction_mode = "http"
ModeAfterBrowserError == "http"

\* loop.run_in_executor(self._executor, ...): the task is queued and awaited
Submit(c, kind) ==
    /\ executor' = Append(executor, [kind |-> kind, caller |-> c])
    /\ task_result' = [task_result EXCEPT ![c] = "pending"]

NoSubmit(c) ==
    /\ executor' = executor
    /\ task_result' = [task_result EXCEPT ![c] = "none"]

\* lines 192-222: the browser extractor is started, or the HTTP crawl is
StartExtraction(c, mode, avail) ==
    IF UsesBrowser(mode, avail)
    THEN /\ Submit(c, "extract")
         /\ pc' = [pc EXCEPT ![c] = "await_extract"]
    ELSE /\ NoSubmit(c)
         /\ pc' = [pc EXCEPT ![c] = "loop"]

\* lines 150-190, browser_available being known: the mode is chosen, after
\* SPA detection when "auto" was requested and the browser is there
Decide(c, avail) ==
    /\ browser_available' = [browser_available EXCEPT ![c] = avail]
    /\ IF requested_mode[c] = "auto" /\ avail
       THEN /\ pc' = [pc EXCEPT ![c] = "detect"]
            /\ NoSubmit(c)
            /\ UNCHANGED extraction_mode
       ELSE LET mode == IF requested_mode[c] = "browser"
                        THEN ModeForBrowserRequest(avail) ELSE "http" IN
            /\ extraction_mode' = [extraction_mode EXCEPT ![c] = mode]
            /\ StartExtraction(c, mode, avail)

\* BrowserService.initialize: if not self._playwright
NeedsInit(playwright) == ~playwright

\* is_browser_available up to its first suspension: without a browser it
\* calls initialize, which queues _init_browser_sync unless _playwright is set
CallIsBrowserAvailable(c) ==
    IF svc_browser = 0 /\ NeedsInit(svc_playwright)
    THEN /\ Submit(c, "init")
         /\ pc' = [pc EXCEPT ![c] = "await_avail"]
         /\ UNCHANGED <<browser_available, extraction_mode>>
    ELSE Decide(c, svc_browser # 0)

\* extract_urls_from_documentation, lines 134-150: get_browser_service builds
\* the global service when there is none and awaits its initialize
ToolStart(c) ==
    /\ pc[c] = "start"
    /\ entry[c] = "tool"
    /\ IF requested_mode[c] \in {"browser", "auto"}
       THEN IF browser_service = 0
            THEN /\ browser_service' = 1
                 /\ services_created' = services_created + 1
                 /\ IF NeedsInit(svc_playwright)
                    THEN /\ Submit(c, "init")
                         /\ pc' = [pc EXCEPT ![c] = "await_get"]
                         /\ UNCHANGED <<browser_available, extraction_mode>>
                    ELSE CallIsBrowserAvailable(c)
            ELSE /\ UNCHANGED <<browser_service, services_created>>
                 /\ CallIsBrowserAvailable(c)
       ELSE /\ UNCHANGED <<browser_service, services_created>>
            /\ Decide(c, FALSE)
    /\ UNCHANGED <<bfsVars, inputVars, probeVars, spa_detected, result, svc_playwright,
                   svc_browser, launches, worker_pos, nav_links>>

\* the awaited initialize is over: it raised, which get_browser_service
\* passes on to the tool's except and is_browser_available turns into False,
\* or it returned
InitReturns(c) ==
    /\ pc[c] \in {"await_get", "await_avail"}
    /\ task_result[c] \in {"ok", "raised"}
    /\ IF task_result[c] = "raised"
       THEN Decide(c, FALSE)
       ELSE IF pc[c] = "await_get"
            THEN CallIsBrowserAvailable(c)
            ELSE Decide(c, svc_browser # 0)
    /\ UNCHANGED <<bfsVars, inputVars, probeVars, spa_detected, result, browser_service,
                   services_created, svc_playwright, svc_browser, launches,
                   worker_pos, nav_links>>

\* detect_spa_architecture answers, or an exception reaches the tool's except
DetectSpa(c) ==
    /\ pc[c] = "detect"
    /\ \E outcome \in {"spa", "plain", "raises"} :
         LET mode == IF outcome = "raises" THEN "http"
                     ELSE ModeForSpa(outcome = "spa") IN
         /\ spa_detected' = [spa_detected EXCEPT ![c] = outcome = "spa"]
         /\ extraction_mode' = [extraction_mode EXCEPT ![c] = mode]
         /\ StartExtraction(c, mode, browser_available[c])
    /\ UNCHANGED <<bfsVars, inputVars, probeVars, browser_available, result, browser_service,
                   services_created, svc_playwright, svc_browser, launches,
                   worker_pos, nav_links>>

\* the worker thread of the pool ends the task at the head of its queue
TaskEnds(outcome) ==
    /\ executor' = Tail(executor)
    /\ worker_pos' = 0
    /\ task_result' = [task_result EXCEPT ![Head(executor).caller] = outcome]

\* _init_browser_sync, first statement: self._playwright = sync_playwright().start()
WorkerStartPlaywright ==
    /\ executor # <<>>
    /\ Head(executor).kind = "init"
    /\ worker_pos = 0
    /\ svc_playwright' = TRUE
    /\ worker_pos' = 1
    /\ UNCHANGED <<pc, bfsVars, inputVars, probeVars, toolVars, browser_service,
                   services_created, svc_browser, launches, executor,
                   task_result, nav_links>>

\* _init_browser_sync, second statement: self._browser = chromium.launch(...)
WorkerLaunch ==
    /\ executor # <<>>
    /\ Head(executor).kind = "init"
    /\ worker_pos = 1
    /\ launches' = launches + 1
    /\ svc_browser' = launches + 1
    /\ TaskEnds("ok")
    /\ UNCHANGED <<pc, bfsVars, inputVars, probeVars, toolVars, browser_service,
                   services_created, svc_playwright, nav_links>>

\* either statement of _init_browser_sync raises: no Playwright, no Chromium
WorkerInitFails ==
    /\ executor # <<>>
    /\ Head(executor).kind = "init"
    /\ TaskEnds("raised")
    /\ UNCHANGED <<pc, bfsVars, inputVars, probeVars, toolVars, browser_service,
                   services_created, svc_playwright, svc_browser, launches,
                   nav_links>>

\* the navigation links page.evaluate returns: any links of the rendered
\* page, the root among them, in document order, each href once
NavLinkLists ==
    { l \in UNION { [1..n -> Urls] : n \in 0..Cardinality(Urls) } :
        \A i, j \in 1..Len(l) : l[i] = l[j] => i = j }

\* _extract_urls_sync: the root is rendered and its navigation links are read
WorkerExtract ==
    /\ executor # <<>>
    /\ Head(executor).kind = "extract"
    /\ \E links \in NavLinkLists :
          nav_links' = [nav_links EXCEPT ![Head(executor).caller] = links]
    /\ TaskEnds("ok")
    /\ UNCHANGED <<pc, bfsVars, inputVars, probeVars, toolVars, browser_service,
                   services_created, svc_playwright, svc_browser, launches>>

\* page.goto or page.evaluate raises in _extract_urls_sync
WorkerExtractFails ==
    /\ executor # <<>>
    /\ Head(executor).kind = "extract"
    /\ TaskEnds("raised")
    /\ UNCHANGED <<pc, bfsVars, inputVars, probeVars, toolVars, browser_service,
                   services_created, svc_playwright, svc_browser, launches,
                   nav_links>>

RECURSIVE BrowserRecords(_, _)
\* _extract_urls_sync, lines 337-352: every href not met before becomes a
\* record of depth 1, unvalidated
BrowserRecords(links, seen) ==
    IF links = <<>> THEN <<>>
    ELSE IF Head(links) \in seen THEN BrowserRecords(Tail(links), seen)
    ELSE <<[url |-> Head(links), depth |-> 1]>>
             \o BrowserRecords(Tail(links), seen \cup {Head(links)})

RECURSIVE MaxRecordDepth(_)
\* max([d for _, _, d in urls_with_depth], default=0)
MaxRecordDepth(records) ==
    IF records = <<>> THEN 0
    ELSE Max(Head(records).depth, MaxRecordDepth(Tail(records)))

\* lines 202-212: the metadata of a browser extraction
BrowserMetadata(records, total_found) ==
    [totalChecked |-> total_found, verified |-> Len(records), failed |-> 0,
     unverified |-> 0, max_depth |-> MaxRecordDepth(records)]

\* extract_urls_with_browser returns its records
ExtractReturns(c) ==
    /\ pc[c] = "await_extract"
    /\ task_result[c] = "ok"
    /\ LET records == BrowserRecords(Truncate(nav_links[c], MaxUrlsPerLevel), {}) IN
       /\ verified_records' = [verified_records EXCEPT ![c] = records]
       /\ metadata' = [metadata EXCEPT
              ![c] = BrowserMetadata(records, Len(nav_links[c]))]
    /\ task_result' = [task_result EXCEPT ![c] = "none"]
    /\ pc' = [pc EXCEPT ![c] = "done"]
    /\ UNCHANGED <<site, cache, sem, cacheLock, max_depth, strict_mode, queue, visited,
                   skipped_links, unverified_links, per_request_cache, current,
                   urls_to_process, processed_count, error_count, enq_log,
                   expanded, last, recency, net_checks, inputVars, probeVars, toolVars,
                   browser_service, services_created, svc_playwright, svc_browser,
                   launches, executor, worker_pos, nav_links>>

\* extract_urls_with_browser raises: the tool falls back to the HTTP crawl
ExtractRaises(c) ==
    /\ pc[c] = "await_extract"
    /\ task_result[c] = "raised"
    /\ extraction_mode' = [extraction_mode EXCEPT ![c] = ModeAfterBrowserError]
    /\ task_result' = [task_result EXCEPT ![c] = "none"]
    /\ pc' = [pc EXCEPT ![c] = "loop"]
    /\ UNCHANGED <<bfsVars, inputVars, probeVars, browser_available, spa_detected, result,
                   browser_service, services_created, svc_playwright, svc_browser,
                   launches, executor, worker_pos, nav_links>>

\* _organize_urls_to_topics_with_depth, lines 717-721: the loop skips a
\* record whose URL is in seen_urls, and adds the URL of every other one
RECURSIVE SkipDuplicates(_, _)
SkipDuplicates(records, seen_urls) ==
    IF records = <<>> THEN <<>>
    ELSE LET r == Head(records) IN
         IF r.url \in seen_urls
           THEN SkipDuplicates(Tail(records), seen_urls)
           ELSE <<r>> \o SkipDuplicates(Tail(records), seen_urls \cup {r.url})

\* seen_urls = set(): the first record of each URL, in the order of the list
FirstOfEachUrl(records) == SkipDuplicates(records, {})

\* if not path_parts and url == main_url: continue
SkipsMainUrl(u, pathEmpty) == pathEmpty /\ u = main_url

\* faulty variant: the key of the sort is the URL alone
TopicBeforeByUrl(a, b) == a.url <= b.url

\* topics.sort(key=lambda t: (t.depth, t.url)): the key of a is not greater
\* than the key of b
TopicBefore(a, b) == a.depth < b.depth \/ (a.depth = b.depth /\ a.url <= b.url)

\* list.sort is stable: a topic goes behind every topic whose key is not
\* greater than its own
InsertTopic(t, sorted) ==
    LET k == Cardinality({ i \in 1..Len(sorted) : TopicBefore(sorted[i], t) })
    IN SubSeq(sorted, 1, k) \o <<t>> \o SubSeq(sorted, k + 1, Len(sorted))

RECURSIVE SortTopics(_)
SortTopics(topics) ==
    IF topics = <<>> THEN <<>>
    ELSE InsertTopic(topics[Len(topics)],
                     SortTopics(SubSeq(topics, 1, Len(topics) - 1)))

\* the topics the organizer returns for the records of a crawl
OrganizeTopics(records, pathEmpty) ==
    LET IsTopic(r) == ~SkipsMainUrl(r.url, pathEmpty)
    IN SortTopics(SelectSeq(FirstOfEachUrl(records), IsTopic))

\* lines 224-252: the records are organized and the tool returns its result
Organize(c) ==
    /\ pc[c] = "done"
    /\ entry[c] = "tool"
    /\ LET topics == OrganizeTopics(verified_records[c], root_path_empty[c]) IN
       result' = [result EXCEPT ![c] =
           [error |-> FALSE, success |-> FALSE, topics |-> topics,
            skippedLinks |-> SkippedLinksOut(skipped_links[c]),
            unverifiedLinks |-> UnverifiedLinksOut(unverified_links[c], strict_mode[c]),
            totalPages |-> Len(topics),
            maxDepth |-> metadata[c].max_depth,
            extractionMode |-> extraction_mode[c],
            spaDetected |-> spa_detected[c]]]
    /\ pc' = [pc EXCEPT ![c] = "returned"]
    /\ UNCHANGED <<bfsVars, inputVars, probeVars, browser_available, extraction_mode,
                   spa_detected, serviceVars>>

\* ContentService.extract_topics builds its context and calls the crawl loop
ApiStart(c) ==
    /\ pc[c] = "start"
    /\ entry[c] = "api"
    /\ pc' = [pc EXCEPT ![c] = "loop"]
    /\ UNCHANGED <<bfsVars, inputVars, probeVars, toolVars, serviceVars>>

\* the crawl loop returned: extract_topics organizes the records and the route
\* answers {"success": True, "data": ...}
ApiRespond(c) ==
    /\ pc[c] = "done"
    /\ entry[c] = "api"
    /\ LET topics == OrganizeTopics(verified_records[c], root_path_empty[c]) IN
       result' = [result EXCEPT ![c] =
           [NoResult EXCEPT !.success = TRUE, !.topics = topics,
                            !.totalPages = Len(topics)]]
    /\ pc' = [pc EXCEPT ![c] = "returned"]
    /\ UNCHANGED <<bfsVars, inputVars, probeVars, browser_available, extraction_mode,
                   spa_detected, serviceVars>>

\* The shared cache when an invocation starts: what EarlierCaches has, or
\* one entry that an earlier crawl of the same site left.
ToolCaches ==
    EarlierCaches \cup
    { << [url |-> NumUrls, rec |-> r] >> :
         r \in { x \in RecordValues : x.status_code # NoStatusCode } }

\* The browser service as earlier invocations may have left it: never asked
\* for, built with an initialize that raised before or after Playwright was
\* started, or running its browser.
ServiceStates ==
    { [service |-> 0, playwright |-> FALSE, browser |-> 0],
      [service |-> 1, playwright |-> FALSE, browser |-> 0],
      [service |-> 1, playwright |-> TRUE, browser |-> 0],
      [service |-> 1, playwright |-> TRUE, browser |-> 1] }

ServiceLeft ==
    /\ \E st \in ServiceStates :
          /\ browser_service = st.service
          /\ services_created = st.service
          /\ svc_playwright = st.playwright
          /\ svc_browser = st.browser
          /\ launches = st.browser
    /\ executor = <<>>
    /\ worker_pos = 0
    /\ task_result = [c \in Crawls |-> "none"]
    /\ nav_links = [c \in Crawls |-> <<>>]

\* One invocation, through the tool in any mode or through the API, whose
\* context is fixed: HTTP mode, strict_mode on, max_depth 0.
InitTool ==
    /\ site = 0..NumUrls
    /\ cache \in ToolCaches
    /\ sem = SEMAPHORE_PERMITS
    /\ cacheLock = 0
    /\ pc = [c \in Crawls |-> IF c = Solo THEN "start" ELSE "off"]
    /\ entry \in [Crawls -> {"tool", "api"}]
    /\ requested_mode \in [Crawls -> {"http", "browser", "auto"}]
    /\ max_depth \in [Crawls -> 0..MaxDepth]
    /\ strict_mode \in [Crawls -> BOOLEAN]
    /\ root_path_empty \in [Crawls -> BOOLEAN]
    /\ \A c \in Crawls :
          /\ entry[c] = "api" =>
                requested_mode[c] = "http" /\ max_depth[c] = 0 /\ strict_mode[c]
          /\ c # Solo =>
                /\ entry[c] = "api"
                /\ root_path_empty[c]
    /\ queue = [c \in Crawls |-> <<[url |-> main_url, depth |-> 0]>>]
    /\ visited = [c \in Crawls |-> {main_url}]
    /\ verified_records = [c \in Crawls |-> <<>>]
    /\ skipped_links = [c \in Crawls |-> <<>>]
    /\ unverified_links = [c \in Crawls |-> <<>>]
    /\ metadata = [c \in Crawls |-> NewMetadata]
    /\ per_request_cache = [c \in Crawls |-> [u \in Urls |-> NoRecord]]
    /\ current = [c \in Crawls |-> [url |-> main_url, depth |-> 0]]
    /\ urls_to_process = [c \in Crawls |-> <<>>]
    /\ processed_count = [c \in Crawls |-> 0]
    /\ error_count = [c \in Crawls |-> 0]
    /\ enq_log = [c \in Crawls |-> <<main_url>>]
    /\ expanded = [c \in Crawls |-> {}]
    /\ last = NoValidation
    /\ recency = KeysInOrder(cache)
    /\ net_checks = [c \in Crawls |-> [u \in Urls |-> 0]]
    /\ browser_available = [c \in Crawls |-> FALSE]
    /\ extraction_mode = [c \in Crawls |-> "http"]
    /\ spa_detected = [c \in Crawls |-> FALSE]
    /\ result = [c \in Crawls |-> NoResult]
    /\ ServiceLeft
    /\ NoProbe

NextTool ==
    \/ ToolStart(Solo)
    \/ InitReturns(Solo)
    \/ DetectSpa(Solo)
    \/ WorkerStartPlaywright
    \/ WorkerLaunch
    \/ WorkerInitFails
    \/ WorkerExtract
    \/ WorkerExtractFails
    \/ ExtractReturns(Solo)
    \/ ExtractRaises(Solo)
    \/ ApiStart(Solo)
    \/ NextBFS
    \/ Organize(Solo)
    \/ ApiRespond(Solo)

SpecTool == InitTool /\ [][NextTool]_vars

\* Every crawl is an invocation of the tool that asks for the browser, all
\* running on one event loop, on a site of ServiceUrls pages under the root;
\* followed up to the browser's result or the start of the HTTP crawl loop.
InitService ==
    /\ site = 0..ServiceUrls
    /\ cache = <<>>
    /\ sem = SEMAPHORE_PERMITS
    /\ cacheLock = 0
    /\ pc = [c \in Crawls |-> "start"]
    /\ entry = [c \in Crawls |-> "tool"]
    /\ requested_mode \in [Crawls -> {"browser", "auto"}]
    /\ max_depth = [c \in Crawls |-> 0]
    /\ strict_mode = [c \in Crawls |-> TRUE]
    /\ root_path_empty = [c \in Crawls |-> TRUE]
    /\ queue = [c \in Crawls |-> <<[url |-> main_url, depth |-> 0]>>]
    /\ visited = [c \in Crawls |-> {main_url}]
    /\ verified_records = [c \in Crawls |-> <<>>]
    /\ skipped_links = [c \in Crawls |-> <<>>]
    /\ unverified_links = [c \in Crawls |-> <<>>]
    /\ metadata = [c \in Crawls |-> NewMetadata]
    /\ per_request_cache = [c \in Crawls |-> [u \in Urls |-> NoRecord]]
    /\ current = [c \in Crawls |-> [url |-> main_url, depth |-> 0]]
    /\ urls_to_process = [c \in Crawls |-> <<>>]
    /\ processed_count = [c \in Crawls |-> 0]
    /\ error_count = [c \in Crawls |-> 0]
    /\ enq_log = [c \in Crawls |-> <<main_url>>]
    /\ expanded = [c \in Crawls |-> {}]
    /\ last = NoValidation
    /\ recency = KeysInOrder(cache)
    /\ net_checks = [c \in Crawls |-> [u \in Urls |-> 0]]
    /\ browser_available = [c \in Crawls |-> FALSE]
    /\ extraction_mode = [c \in Crawls |-> "http"]
    /\ spa_detected = [c \in Crawls |-> FALSE]
    /\ result = [c \in Crawls |-> NoResult]
    /\ ServiceUnused
    /\ NoProbe

NextService ==
    \/ \E c \in Crawls :
          \/ ToolStart(c)
          \/ InitReturns(c)
          \/ DetectSpa(c)
          \/ ExtractReturns(c)
          \/ ExtractRaises(c)
          \/ Organize(c)
    \/ WorkerStartPlaywright
    \/ WorkerLaunch
    \/ WorkerInitFails
    \/ WorkerExtract
    \/ WorkerExtractFails

SpecService == InitService /\ [][NextService]_vars

\* ------------------------------------ the cache lock, one step per statement
\* faulty variant: leaving the async with block keeps the lock
LockOnExitKept(holder) == holder

\* async with GLOBAL_CACHE_LOCK, on leaving the block: the lock is free
LockOnExit(holder) == 0

\* the link in hand is to be validated and the per-crawl cache has no answer
NeedsSharedCache(c) ==
    /\ pc[c] = "links"
    /\ urls_to_process[c] # <<>>
    /\ ~AlreadyVisited(visited[c], Head(urls_to_process[c]))
    /\ per_request_cache[c][Head(urls_to_process[c])] = NoRecord

\* _get_cached_validation, line 481: the lock is taken once it is free
EnterGetCachedValidation(c) ==
    /\ NeedsSharedCache(c)
    /\ cacheLock = 0
    /\ cacheLock' = c
    /\ pc' = [pc EXCEPT ![c] = "in_get"]
    /\ UNCHANGED <<site, cache, sem, max_depth, strict_mode, queue, visited,
                   verified_records, skipped_links, unverified_links, metadata,
                   per_request_cache, current, urls_to_process, processed_count,
                   error_count, enq_log, expanded, last, recency, net_checks,
                   inputVars, probeVars, toolVars, serviceVars>>

\* lines 482-484 and 461-463: the entry is there; it is moved to the end, the
\* lock is left, the record goes to the per-crawl cache and to the loop body
GetCachedValidationHit(c) ==
    /\ pc[c] = "in_get"
    /\ LET u == Head(urls_to_process[c])
           cached == GetCachedValidationResult(cache, u) IN
       /\ cached # NoRecord
       /\ cache' = GetCachedValidationCache(cache, u)
       /\ per_request_cache' = [per_request_cache EXCEPT
              ![c] = RememberLocal(@, u, cached)]
       /\ ProcessRecord(c, u, cached)
       /\ last' = [crawl |-> c, url |-> u, rec |-> cached, from |-> "global"]
       /\ recency' = Use(recency, u)
    /\ cacheLock' = LockOnExit(c)
    /\ pc' = [pc EXCEPT ![c] = "links"]
    /\ UNCHANGED <<site, sem, current, expanded, net_checks, Bookkeeping,
                   inputVars, probeVars, toolVars, serviceVars>>

\* line 485: no entry; the lock is left and None returned
GetCachedValidationMiss(c) ==
    /\ pc[c] = "in_get"
    /\ GetCachedValidationResult(cache, Head(urls_to_process[c])) = NoRecord
    /\ cacheLock' = LockOnExit(c)
    /\ pc' = [pc EXCEPT ![c] = "missed"]
    /\ UNCHANGED <<site, cache, sem, max_depth, strict_mode, queue, visited,
                   verified_records, skipped_links, unverified_links, metadata,
                   per_request_cache, current, urls_to_process, processed_count,
                   error_count, enq_log, expanded, last, recency, net_checks,
                   inputVars, probeVars, toolVars, serviceVars>>

\* line 465, async with VALIDATION_SEMAPHORE: a free permit is taken, else
\* the coroutine waits for one
EnterSemaphore(c) ==
    /\ pc[c] = "missed"
    /\ IF SemaphoreLocked(sem)
       THEN /\ pc' = [pc EXCEPT ![c] = "sem_wait"]
            /\ sem' = sem
       ELSE /\ pc' = [pc EXCEPT ![c] = "sleep"]
            /\ sem' = sem - 1
    /\ UNCHANGED <<site, cache, cacheLock, max_depth, strict_mode, queue, visited,
                   verified_records, skipped_links, unverified_links, metadata,
                   per_request_cache, current, urls_to_process, processed_count,
                   error_count, enq_log, expanded, last, recency, net_checks,
                   inputVars, probeVars, toolVars, serviceVars>>

\* lines 467-475: _check_url_exists returns, the permit is given back on
\* leaving the block and the record is put in the per-crawl cache
CheckReturns(c) ==
    /\ pc[c] = "check"
    /\ \E head \in HeadOutcomes, get \in GetOutcomes :
         per_request_cache' = [per_request_cache EXCEPT
             ![c] = RememberLocal(@, Head(urls_to_process[c]),
                                  MakeRecord(CheckUrlExists(head, get)))]
    /\ sem' = sem + 1
    /\ pc' = [pc EXCEPT ![c] = "set_wait"]
    /\ UNCHANGED <<site, cache, cacheLock, max_depth, strict_mode, queue, visited,
                   verified_records, skipped_links, unverified_links, metadata,
                   current, urls_to_process, processed_count,
                   error_count, enq_log, expanded, last, recency, net_checks,
                   inputVars, probeVars, toolVars, serviceVars>>

\* _check_url_exists raises what it does not catch: the permit is given back
\* on leaving the block and the except of the page (lines 351-354) counts an
\* error and goes on with the next page
CheckRaises(c) ==
    /\ pc[c] = "check"
    /\ sem' = sem + 1
    /\ error_count' = [error_count EXCEPT ![c] = @ + 1]
    /\ pc' = [pc EXCEPT ![c] = AfterFetchError]
    /\ UNCHANGED <<site, cache, cacheLock, max_depth, strict_mode, queue, visited,
                   verified_records, skipped_links, unverified_links, metadata,
                   per_request_cache, current, urls_to_process, processed_count,
                   enq_log, expanded, last, recency, net_checks,
                   inputVars, probeVars, toolVars, serviceVars>>

\* _set_cached_validation, line 489: the lock is taken once it is free
EnterSetCachedValidation(c) ==
    /\ pc[c] = "set_wait"
    /\ cacheLock = 0
    /\ cacheLock' = c
    /\ pc' = [pc EXCEPT ![c] = "in_set"]
    /\ UNCHANGED <<site, cache, sem, max_depth, strict_mode, queue, visited,
                   verified_records, skipped_links, unverified_links, metadata,
                   per_request_cache, current, urls_to_process, processed_count,
                   error_count, enq_log, expanded, last, recency, net_checks,
                   inputVars, probeVars, toolVars, serviceVars>>

\* lines 490-493 and 477: the entry is written, the oldest one evicted if
\* there are too many, the lock is left and the loop body gets the record
SetCachedValidationDone(c) ==
    /\ pc[c] = "in_set"
    /\ LET u == Head(urls_to_process[c])
           record == per_request_cache[c][u] IN
       /\ cache' = SetCachedValidation(cache, u, record)
       /\ ProcessRecord(c, u, record)
       /\ last' = [crawl |-> c, url |-> u, rec |-> record, from |-> "network"]
       /\ recency' = Use(recency, u)
    /\ cacheLock' = LockOnExit(c)
    /\ pc' = [pc EXCEPT ![c] = "links"]
    /\ UNCHANGED <<site, sem, per_request_cache, current, expanded, net_checks,
                   Bookkeeping, inputVars, probeVars, toolVars, serviceVars>>

\* concurrent crawls; every entry and exit of a lock or semaphore block is a
\* step of its own, as if the coroutine could be suspended there
NextLock ==
    \E c \in Crawls :
        \/ Dequeue(c)
        \/ FetchPage(c)
        \/ FetchFails(c)
        \/ LinksDone(c)
        \/ SkipVisited(c)
        \/ ValidateLocalHit(c)
        \/ EnterGetCachedValidation(c)
        \/ GetCachedValidationHit(c)
        \/ GetCachedValidationMiss(c)
        \/ EnterSemaphore(c)
        \/ AcquirePermit(c)
        \/ JitterDone(c)
        \/ CheckReturns(c)
        \/ CheckRaises(c)
        \/ EnterSetCachedValidation(c)
        \/ SetCachedValidationDone(c)
        \/ Return(c)

SpecLock == Init /\ [][NextLock]_vars

\* --------------------------------------- the functions called on their own
\* the status codes a server answers HEAD or GET with
StatusCodes == {200, 204, 301, 399, 400, 403, 404, 405, 500}

\* what client.head / client.get give: a response, or one of the two
\* exceptions _check_url_exists catches
Responses ==
    { [exc |-> "none", status |-> s] : s \in StatusCodes }
        \cup { [exc |-> e, status |-> NoStatusCode] : e \in {"timeout", "request_error"} }

\* the calls of _check_url_exists: the answer to HEAD, and the answer GET
\* would get
CheckProbes == { [fn |-> "check", head |-> h, get |-> g] : h, g \in Responses }

\* the records a crawl hands to the organizer: verified records in the order
\* of discovery, the same URL possibly twice with different depths
OrganizerRecords == [url : 0..NumUrls, depth : 1..(MaxDepth + 1)]

RecordLists ==
    UNION { [1..n -> OrganizerRecords] : n \in 0..MaxRecords }

\* the calls of _organize_urls_to_topics_with_depth
OrganizeProbes ==
    { [fn |-> "organize", records |-> l, pathEmpty |-> e] :
        l \in RecordLists, e \in BOOLEAN }

\* urlparse(url): scheme, netloc split at the dots, path, fragment.  A piece
\* of the netloc is a host label; the last one carries the port if there is one
Schemes == {"http", "https", "ftp", "mailto"}

Netlocs ==
    {<<"example", "com">>, <<"docs", "example", "com">>, <<"evil", "com">>,
     <<"example", "com:8080">>, <<"docs", "evil", "com">>,
     <<"localhost">>, <<"docs", "localhost">>}

Paths == {"", "/a", "/x", "/Login", "/static/x", "/js", "/a.PDF"}

Fragments == {"", "frag"}

ParsedUrls == [scheme : Schemes, netloc : Netlocs, path : Paths, fragment : Fragments]

\* parsed_link.path.lower()
PathLower(path) ==
    CASE path = "/Login" -> "/login"
      [] path = "/a.PDF" -> "/a.pdf"
      [] OTHER -> path

\* for excluded in excluded_paths: if excluded in path_lower.  Of the paths
\* above "/login" holds '/login' and "/static/x" holds '/static/'; "/js" does
\* not hold '/js/'
HoldsExcludedPath(path_lower) == path_lower \in {"/login", "/static/x"}

\* any(path_lower.endswith(ext) for ext in excluded_extensions): ".pdf" is one
\* of them, and "/js" does not end with ".js"
EndsWithExcludedExtension(path_lower) == path_lower \in {"/a.pdf"}

\* link_domain_parts[-2:]
LastTwo(parts) == SubSeq(parts, Len(parts) - 1, Len(parts))

\* faulty variant: only the last piece of the netloc is compared
SameBaseDomainByLastPiece(link_parts, main_parts) ==
    link_parts[Len(link_parts)] = main_parts[Len(main_parts)]

\* lines 647-659: the last two pieces of both netlocs are compared when both
\* have two or more, else the netlocs as a whole
SameBaseDomain(link_parts, main_parts) ==
    IF Len(link_parts) >= 2 /\ Len(main_parts) >= 2
      THEN LastTwo(link_parts) = LastTwo(main_parts)
      ELSE link_parts = main_parts

\* if parsed_link.path == parsed_main.path and parsed_link.fragment
AnchorOnly(parsed_link, parsed_main) ==
    parsed_link.path = parsed_main.path /\ parsed_link.fragment # ""

\* _is_relevant_link(link_url, main_url) on the parsed URLs
IsRelevantLink(parsed_link, parsed_main) ==
    /\ parsed_link.scheme \in {"http", "https"}
    /\ SameBaseDomain(parsed_link.netloc, parsed_main.netloc)
    /\ ~AnchorOnly(parsed_link, parsed_main)
    /\ ~HoldsExcludedPath(PathLower(parsed_link.path))
    /\ ~EndsWithExcludedExtension(PathLower(parsed_link.path))

\* the calls of _is_relevant_link: a candidate and the origin, which is an
\* http(s) URL without fragment
RelevantProbes ==
    { [fn |-> "relevant", link |-> l, main |-> m] :
        l \in ParsedUrls,
        m \in { u \in ParsedUrls : /\ u.scheme = "https"
                                   /\ u.fragment = ""
                                   /\ u.path \in {"", "/a"} } }

Probes == CheckProbes \cup OrganizeProbes \cup RelevantProbes

\* no crawl runs
NoCrawl ==
    /\ site = 0..NumUrls
    /\ cache = <<>>
    /\ sem = SEMAPHORE_PERMITS
    /\ cacheLock = 0
    /\ pc = [c \in Crawls |-> "off"]
    /\ max_depth = [c \in Crawls |-> 0]
    /\ strict_mode = [c \in Crawls |-> TRUE]
    /\ queue = [c \in Crawls |-> <<>>]
    /\ visited = [c \in Crawls |-> {}]
    /\ verified_records = [c \in Crawls |-> <<>>]
    /\ skipped_links = [c \in Crawls |-> <<>>]
    /\ unverified_links = [c \in Crawls |-> <<>>]
    /\ metadata = [c \in Crawls |-> NewMetadata]
    /\ per_request_cache = [c \in Crawls |-> [u \in Urls |-> NoRecord]]
    /\ current = [c \in Crawls |-> [url |-> main_url, depth |-> 0]]
    /\ urls_to_process = [c \in Crawls |-> <<>>]
    /\ processed_count = [c \in Crawls |-> 0]
    /\ error_count = [c \in Crawls |-> 0]
    /\ enq_log = [c \in Crawls |-> <<>>]
    /\ expanded = [c \in Crawls |-> {}]
    /\ last = NoValidation
    /\ recency = <<>>
    /\ net_checks = [c \in Crawls |-> [u \in Urls |-> 0]]
    /\ HttpModeChosen

crawlVars == <<pc, bfsVars, inputVars, toolVars, serviceVars>>

\* _check_url_exists(client, url), and the record _validate_url_status
\* builds from its answer
ProbeCheckUrlExists ==
    /\ probe.fn = "check"
    /\ ~probe_done
    /\ probe_done' = TRUE
    /\ probe_out' = [record |-> MakeRecord(CheckUrlExists(probe.head, probe.get)),
                     get_sent |-> FallsBackToGet(probe.head)]
    /\ UNCHANGED <<probe, crawlVars>>

\* the orders a list can be handed over in
Orders(n) ==
    { f \in [1..n -> 1..n] : \A i, j \in 1..n : f[i] = f[j] => i = j }

Permuted(l, f) == [i \in 1..Len(l) |-> l[f[i]]]

\* _organize_urls_to_topics_with_depth called twice on the records of the
\* probe, each time in some order
ProbeOrganize ==
    /\ probe.fn = "organize"
    /\ ~probe_done
    /\ \E f \in Orders(Len(probe.records)) :
         LET given == Permuted(probe.records, f) IN
         probe_out' = Append(probe_out,
                             [given |-> given,
                              topics |-> OrganizeTopics(given, probe.pathEmpty)])
    /\ probe_done' = (Len(probe_out) = 1)
    /\ UNCHANGED <<probe, crawlVars>>

\* _is_relevant_link called on the candidate and the origin of the probe
ProbeIsRelevantLink ==
    /\ probe.fn = "relevant"
    /\ ~probe_done
    /\ probe_done' = TRUE
    /\ probe_out' = IsRelevantLink(probe.link, probe.main)
    /\ UNCHANGED <<probe, crawlVars>>

InitPure ==
    /\ NoCrawl
    /\ probe \in Probes
    /\ probe_done = FALSE
    /\ probe_out = <<>>

NextPure ==
    \/ ProbeCheckUrlExists
    \/ ProbeOrganize
    \/ ProbeIsRelevantLink

SpecPure == InitPure /\ [][NextPure]_vars

\* ------------------------------------------------------------------ claims
RecordUrls(c) == { verified_records[c][i].url : i \in 1..Len(verified_records[c]) }
SkippedUrls(c) == { skipped_links[c][i].url : i \in 1..Len(skipped_links[c]) }
QueueUrls(c) == { queue[c][i].url : i \in 1..Len(queue[c]) }
EnqueuedUrls(c) == { enq_log[c][i] : i \in 1..Len(enq_log[c]) }
LinkInHand(c) == Head(urls_to_process[c])

\* C1: at every point of the crawl and in its output, no two verified
\* records have the same URL.
C1_NoDuplicateRecords ==
    \A c \in Crawls :
        \A i, j \in 1..Len(verified_records[c]) :
            verified_records[c][i].url = verified_records[c][j].url => i = j

\* every URL of the site is recorded and a page links to a recorded URL again
C1_Witness ==
    /\ pc[Solo] = "links"
    /\ urls_to_process[Solo] # <<>>
    /\ LinkInHand(Solo) \in RecordUrls(Solo)
    /\ Len(verified_records[Solo]) = BfsUrls

\* C2: the queue starts with the root alone; a URL is appended to the queue
\* only in the step in which its validation returned verified, it was not in
\* visited nor ever enqueued before, and it is in visited after the step.
C2_EnqueuedOnce ==
    /\ \A c \in Crawls : enq_log[c] = <<main_url>> /\ queue[c] = <<[url |-> main_url, depth |-> 0]>>
    /\ [][\A c \in Crawls :
            enq_log'[c] # enq_log[c] =>
                LET u == enq_log'[c][Len(enq_log'[c])] IN
                /\ enq_log'[c] = Append(enq_log[c], u)
                /\ queue'[c] = Append(queue[c], queue'[c][Len(queue'[c])])
                /\ queue'[c][Len(queue'[c])].url = u
                /\ u \notin EnqueuedUrls(c)
                /\ u \notin visited[c]
                /\ u \in visited'[c]
                /\ last'.crawl = c /\ last'.url = u
                /\ last'.rec.status = "verified"]_vars
    /\ [][\A c \in Crawls :
            enq_log'[c] = enq_log[c] =>
                \A i \in 1..Len(queue'[c]) :
                    \E j \in 1..Len(queue[c]) : queue'[c][i] = queue[c][j]]_vars

\* all URLs of the site were enqueued and a page links to one of them again
C2_Witness ==
    /\ Len(enq_log[Solo]) = BfsUrls + 1
    /\ pc[Solo] = "links"
    /\ urls_to_process[Solo] # <<>>
    /\ LinkInHand(Solo) \in EnqueuedUrls(Solo) \ {main_url}

\* C3: a record is appended with the depth of the page in hand plus one; the
\* page in hand is the root at depth 0 or a verified record with its recorded
\* depth, as is every queue entry; so every record has depth >= 1.
IsRootOrRecord(c, item) ==
    \/ item = [url |-> main_url, depth |-> 0]
    \/ \E i \in 1..Len(verified_records[c]) : verified_records[c][i] = item

C3_DepthIsParentPlusOne ==
    /\ [](\A c \in Crawls :
            /\ IsRootOrRecord(c, current[c])
            /\ \A i \in 1..Len(queue[c]) : IsRootOrRecord(c, queue[c][i])
            /\ \A i \in 1..Len(verified_records[c]) : verified_records[c][i].depth >= 1)
    /\ [][\A c \in Crawls :
            verified_records'[c] # verified_records[c] =>
                /\ Len(verified_records'[c]) = Len(verified_records[c]) + 1
                /\ SubSeq(verified_records'[c], 1, Len(verified_records[c])) = verified_records[c]
                /\ verified_records'[c][Len(verified_records'[c])].depth = current[c].depth + 1
                /\ current'[c] = current[c]]_vars

\* a record of depth 2 found on a page of depth 1, and another of depth 1
C3_Witness ==
    /\ pc[Solo] = "done"
    /\ \E i, j \in 1..Len(verified_records[Solo]) :
          /\ verified_records[Solo][i].depth = 1
          /\ verified_records[Solo][j].depth = 2
    /\ current[Solo].depth = 1

\* C4 as stated: a link whose record has depth == max_depth is in the
\* records but its page is never fetched for link extraction.
C4_MaxDepthLinkNeverExpanded ==
    \A c \in Crawls :
        \A i \in 1..Len(verified_records[c]) :
            verified_records[c][i].depth = max_depth[c] =>
                verified_records[c][i].url \notin expanded[c]

\* C4 as amended: a link found on a page of depth == max_depth is recorded,
\* with depth max_depth + 1, and is never enqueued nor expanded; no deeper
\* record exists; a link recorded with depth <= max_depth is enqueued for
\* expansion, and nothing deeper than max_depth is ever on the queue or
\* fetched.
C4_BeyondMaxDepthNeverExpanded ==
    \A c \in Crawls :
        /\ \A i \in 1..Len(verified_records[c]) :
              LET r == verified_records[c][i] IN
              /\ r.depth <= max_depth[c] + 1
              /\ r.depth = max_depth[c] + 1 =>
                    /\ r.url \notin EnqueuedUrls(c)
                    /\ r.url \notin QueueUrls(c)
                    /\ r.url \notin expanded[c]
              /\ r.depth <= max_depth[c] => r.url \in EnqueuedUrls(c)
        /\ \A i \in 1..Len(queue[c]) : queue[c][i].depth <= max_depth[c]
        /\ pc[c] \in {"fetch", "links", "sem_wait", "sleep", "check"} =>
              current[c].depth <= max_depth[c]

\* the crawl is over; a record of depth max_depth >= 1 was expanded and a
\* link found on its page was recorded one level deeper
C4_Witness ==
    /\ pc[Solo] = "done"
    /\ max_depth[Solo] >= 1
    /\ \E i, j \in 1..Len(verified_records[Solo]) :
          /\ verified_records[Solo][i].depth = max_depth[Solo]
          /\ verified_records[Solo][i].url \in expanded[Solo]
          /\ verified_records[Solo][j].depth = max_depth[Solo] + 1

\* C5: a URL whose validation record in this crawl is not 'verified' is never
\* put on the queue and its page is never fetched.
C5_ValidationGatesExpansion ==
    \A c \in Crawls :
        \A u \in Urls :
            (per_request_cache[c][u] # NoRecord
                /\ per_request_cache[c][u].status # "verified") =>
                    /\ u \notin EnqueuedUrls(c)
                    /\ u \notin QueueUrls(c)
                    /\ u \notin expanded[c]
                    /\ u \notin visited[c]

\* the crawl is over, two pages were expanded after the root, and a URL that
\* failed validation was met on two pages
C5_Witness ==
    /\ pc[Solo] = "done"
    /\ Cardinality(expanded[Solo]) >= 3
    /\ \E i, j \in 1..Len(skipped_links[Solo]) :
          /\ i # j
          /\ skipped_links[Solo][i].url = skipped_links[Solo][j].url

\* C6: the page taken from the queue is never deeper than any entry left on
\* the queue, and never shallower than the page taken before it.
C6_LevelOrder ==
    [][\A c \in Crawls :
          processed_count'[c] # processed_count[c] =>
              /\ current'[c].depth >= current[c].depth
              /\ \A i \in 1..Len(queue'[c]) :
                    queue'[c][i].depth >= current'[c].depth]_vars

\* the second page of depth 1 has just been taken from a queue that also held
\* a page of depth 2, found on the first page of depth 1 and enqueued behind it
C6_Witness ==
    /\ pc[Solo] = "fetch"
    /\ processed_count[Solo] = 3
    /\ current[Solo].depth = 1
    /\ queue[Solo] # <<>>
    /\ \A i \in 1..Len(queue[Solo]) : queue[Solo][i].depth = 2

\* C7: the shared cache never holds more than MAX_GLOBAL_CACHE_SIZE entries,
\* however the crawls interleave.
C7_CacheBounded == Len(cache) <= MAX_GLOBAL_CACHE_SIZE

\* the cache is full after a write of one crawl evicted an entry, and another
\* crawl, which validated over the network before, is about to write again
C7_Witness ==
    /\ Len(cache) = MAX_GLOBAL_CACHE_SIZE
    /\ \E i \in 1..Len(recency) : recency[i] \notin CacheKeys(cache)
    /\ last.from = "network"
    /\ \E c \in Crawls :
          /\ c # last.crawl
          /\ pc[c] = "check"
          /\ \E u \in Urls : per_request_cache[c][u] # NoRecord

\* the key of the cache that was used least recently
LeastRecentlyUsed(cch, rcy) ==
    LET pos(k) == CHOOSE i \in 1..Len(rcy) : rcy[i] = k
    IN CHOOSE k \in CacheKeys(cch) : \A o \in CacheKeys(cch) : pos(k) <= pos(o)

InNetworkPhase == { c \in Crawls : pc[c] \in {"sleep", "check"} }

\* C9: at most SEMAPHORE_PERMITS validations are in their network phase at
\* the same time, and the free permits are those not held.
C9_SemaphoreBound ==
    /\ Cardinality(InNetworkPhase) <= SEMAPHORE_PERMITS
    /\ sem = SEMAPHORE_PERMITS - Cardinality(InNetworkPhase)

\* every permit is taken and another crawl waits for one
C9_Witness ==
    /\ Cardinality(InNetworkPhase) = SEMAPHORE_PERMITS
    /\ \E c \in Crawls : pc[c] = "sem_wait"

\* C10: the network phase is entered only on a miss in both caches; a record
\* returned for URL u is then the per-crawl cache's record for u; it comes
\* from the per-crawl cache if u is there, else from the shared cache if u is
\* there, and a record from the network is the shared cache's record for u
\* when it is returned.
C10_TwoTierWriteThrough ==
    [][\A c \in Crawls :
          LET u == LinkInHand(c) IN
          /\ (pc[c] = "links" /\ pc'[c] \in {"sleep", "sem_wait"}) =>
                /\ per_request_cache[c][u] = NoRecord
                /\ u \notin CacheKeys(cache)
          /\ metadata'[c].totalChecked # metadata[c].totalChecked =>
                /\ last'.crawl = c
                /\ last'.url = u
                /\ last'.rec # NoRecord
                /\ per_request_cache'[c][u] = last'.rec
                /\ last'.from = "local" <=> per_request_cache[c][u] # NoRecord
                /\ last'.from = "local" => per_request_cache[c][u] = last'.rec
                /\ last'.from = "global" =>
                      /\ u \in CacheKeys(cache)
                      /\ CacheLookup(cache, u) = last'.rec
                /\ last'.from = "network" =>
                      /\ pc[c] = "check"
                      /\ u \in CacheKeys(cache')
                      /\ CacheLookup(cache', u) = last'.rec]_vars

\* a record from the network has just been returned for a URL for which
\* another crawl holds a different record, and the write evicted an entry
C10_Witness ==
    /\ last.from = "network"
    /\ \E d \in Crawls :
          /\ d # last.crawl
          /\ per_request_cache[d][last.url] # NoRecord
          /\ per_request_cache[d][last.url] # last.rec
    /\ CacheLookup(cache, last.url) = last.rec
    /\ \E i \in 1..Len(recency) : recency[i] \notin CacheKeys(cache)

C12_StrictModeSuppression ==
    /\ [](\A c \in Crawls :
            /\ strict_mode[c] =>
                  /\ UnverifiedLinksOut(unverified_links[c], strict_mode[c]) = <<>>
                  /\ metadata[c].unverified = 0
            /\ ~strict_mode[c] =>
                  /\ UnverifiedLinksOut(unverified_links[c], strict_mode[c])
                        = SkippedLinksOut(skipped_links[c])
                  /\ metadata[c].unverified = Len(skipped_links[c])
            /\ metadata[c].failed = Len(skipped_links[c]))
    /\ [][\A c \in Crawls :
            IF metadata'[c].totalChecked # metadata[c].totalChecked
                  /\ last'.rec.status # "verified"
            THEN skipped_links'[c] =
                    Append(skipped_links[c],
                           [url |-> last'.url,
                            reason |-> IF last'.rec.reason = NoReason
                                       THEN "validation_failed" ELSE last'.rec.reason,
                            statusCode |-> last'.rec.status_code])
            ELSE skipped_links'[c] = skipped_links[c]]_vars

\* a strict crawl and a non-strict crawl are both over with the same two
\* skipped links; only the non-strict one reports them as unverified
C12_Witness ==
    \E c, d \in Crawls :
        /\ strict_mode[c] /\ ~strict_mode[d]
        /\ pc[c] = "done" /\ pc[d] = "done"
        /\ Len(skipped_links[c]) = NumUrls
        /\ skipped_links[d] = skipped_links[c]
        /\ UnverifiedLinksOut(unverified_links[c], strict_mode[c]) = <<>>
        /\ UnverifiedLinksOut(unverified_links[d], strict_mode[d]) = skipped_links[d]

\* the one page the crawl took from its queue was the root and its fetch failed
RootFetchFailed(c) == processed_count[c] = 1 /\ error_count[c] = 1

\* C13: when the root page cannot be fetched, the tool returns a result with
\* empty topics, totalPages 0 and an error field.
C13_RootFailureReportsError ==
    \A c \in Crawls :
        (pc[c] = "returned" /\ entry[c] = "tool" /\ RootFetchFailed(c)) =>
            /\ result[c].topics = <<>>
            /\ result[c].totalPages = 0
            /\ result[c].error

\* C14: the API answers success: true exactly when some topic was extracted,
\* and success: false when nothing could be extracted.
C14_ApiSuccessOnlyWithTopics ==
    \A c \in Crawls :
        (pc[c] = "returned" /\ entry[c] = "api") =>
            (result[c].success <=> result[c].topics # <<>>)

\* C15: the step in which a page fetch fails changes none of the records,
\* skipped links, visited set, queue and metadata of the crawl and leaves it
\* in the while loop; the crawl returns only with an empty queue; and every
\* URL on the queue after a failure is dequeued and its page fetch attempted.
C15_FetchFailureDoesNotAbort ==
    /\ [][\A c \in Crawls :
            error_count'[c] # error_count[c] =>
                /\ verified_records'[c] = verified_records[c]
                /\ skipped_links'[c] = skipped_links[c]
                /\ unverified_links'[c] = unverified_links[c]
                /\ visited'[c] = visited[c]
                /\ queue'[c] = queue[c]
                /\ metadata'[c] = metadata[c]
                /\ pc'[c] = "loop"]_vars
    /\ [](\A c \in Crawls : pc[c] = "done" => queue[c] = <<>>)
    /\ \A c \in Crawls : \A u \in Urls :
          (error_count[c] > 0 /\ u \in QueueUrls(c)) ~> (u \in expanded[c])
    /\ \A c \in Crawls : (error_count[c] > 0) ~> (pc[c] = "done")

\* a page fetch failed earlier, and the crawl is going through the links of
\* a page it took from the queue after that, with its earlier records kept
C15_Witness ==
    /\ error_count[Solo] >= 1
    /\ pc[Solo] = "links"
    /\ processed_count[Solo] >= 3
    /\ urls_to_process[Solo] # <<>>
    /\ verified_records[Solo] # <<>>
    /\ skipped_links[Solo] # <<>>

InHttpCrawl(c) == pc[c] \in {"loop", "fetch", "links", "sem_wait", "sleep", "check"}

\* C17: a tool invocation that asked for the browser goes to the HTTP crawl
\* with extraction_mode "http" when initialize raised in get_browser_service
\* or in is_browser_available, when the browser is reported unavailable, when
\* SPA detection raised and when the browser extractor raised; inside the HTTP
\* crawl the mode is always "http"; the result carries no error, says "http"
\* exactly when the crawl loop produced the records and "browser" exactly
\* when the browser extractor did.
C17_DegradesToHttp ==
    /\ [](\A c \in Crawls :
            /\ InHttpCrawl(c) => extraction_mode[c] = "http"
            /\ pc[c] = "await_extract" =>
                  extraction_mode[c] = "browser" /\ browser_available[c]
            /\ (pc[c] = "returned" /\ entry[c] = "tool") =>
                  /\ ~result[c].error
                  /\ result[c].extractionMode \in {"http", "browser"}
                  /\ result[c].extractionMode = "http" <=> processed_count[c] >= 1
                  /\ result[c].extractionMode = "browser" <=>
                        (processed_count[c] = 0 /\ browser_available[c]
                            /\ result[c].topics
                                 = OrganizeTopics(BrowserRecords(
                                       Truncate(nav_links[c], MaxUrlsPerLevel), {}),
                                       root_path_empty[c])))
    /\ [][\A c \in Crawls :
            /\ (pc[c] \in {"await_get", "await_avail", "await_extract"}
                  /\ task_result[c] = "raised" /\ pc'[c] # pc[c]) =>
                     pc'[c] = "loop" /\ extraction_mode'[c] = "http"
            /\ (pc[c] \in {"start", "await_get", "await_avail"}
                  /\ pc'[c] \notin {"start", "await_get", "await_avail"}
                  /\ ~browser_available'[c]) =>
                     pc'[c] = "loop" /\ extraction_mode'[c] = "http"
            /\ (pc[c] = "detect" /\ pc'[c] # pc[c] /\ ~spa_detected'[c]) =>
                     pc'[c] = "loop" /\ extraction_mode'[c] = "http"]_vars

\* the browser was asked for and launched, its extractor raised, and the
\* tool returned the topics of the HTTP crawl with extractionMode "http"
C17_Witness ==
    /\ pc[Solo] = "returned"
    /\ requested_mode[Solo] = "browser"
    /\ browser_available[Solo]
    /\ launches = 1
    /\ processed_count[Solo] >= 2
    /\ result[Solo].extractionMode = "http"
    /\ result[Solo].topics # <<>>
    /\ ~result[Solo].error

\* C18: whatever the interleaving of the invocations, one BrowserService
\* object is built at most and the headless browser is launched at most once.
C18_SingletonLaunchedOnce ==
    /\ services_created <= 1
    /\ launches <= 1

\* C19: the root URL is not the URL of any topic of a returned result, in
\* either extraction mode and whatever the path of the root URL.
C19_RootNeverTopic ==
    \A c \in Crawls :
        pc[c] = "returned" =>
            \A i \in 1..Len(result[c].topics) : result[c].topics[i].url # main_url

\* the depths of the verified records of a crawl
RecordDepths(c) == { verified_records[c][i].depth : i \in 1..Len(verified_records[c]) }

\* the largest of them, 0 when there is none
DeepestRecord(c) ==
    IF RecordDepths(c) = {} THEN 0
    ELSE CHOOSE d \in RecordDepths(c) : \A e \in RecordDepths(c) : d >= e

\* C20: in every state of a crawl, and in the result returned,
\* metadata.max_depth is the largest depth of a verified record, 0 without
\* any record.
C20_MaxDepthIsDeepestRecord ==
    \A c \in Crawls :
        /\ metadata[c].max_depth = DeepestRecord(c)
        /\ (pc[c] = "returned" /\ entry[c] = "tool") =>
              result[c].maxDepth = DeepestRecord(c)

\* a crawl returned records of depth 1 and of depth 2 and reports maxDepth 2
C20_Witness ==
    /\ pc[Solo] = "returned"
    /\ entry[Solo] = "tool"
    /\ RecordDepths(Solo) = {1, 2}
    /\ Len(verified_records[Solo]) = NumUrls
    /\ verified_records[Solo][1].depth = 1
    /\ result[Solo].maxDepth = 2

\* C21: _check_url_exists classifies a URL as follows: a HEAD answer below 400
\* is verified with that code; a GET is sent exactly when HEAD answered 403 or
\* 405, and a GET answer below 400 is verified with that code; a timeout is
\* failed with reason 'timeout' and no status code; any other transport
\* failure is failed with reason 'request_error' and no status code; every
\* remaining case is failed with reason 'validation_failed' and the last
\* status code returned.
C21_Raised(h, g, sent, e) == h.exc = e \/ (sent /\ g.exc = e)

C21_Expected(h, g) ==
    LET sent == h.exc = "none" /\ h.status \in {403, 405}
        lastAnswer == IF sent THEN g ELSE h
    IN  IF C21_Raised(h, g, sent, "timeout")
          THEN [status |-> "failed", status_code |-> NoStatusCode, reason |-> "timeout"]
        ELSE IF C21_Raised(h, g, sent, "request_error")
          THEN [status |-> "failed", status_code |-> NoStatusCode,
                reason |-> "request_error"]
        ELSE IF lastAnswer.status < 400 /\ (sent \/ h.status < 400)
          THEN [status |-> "verified", status_code |-> lastAnswer.status,
                reason |-> NoReason]
        ELSE [status |-> "failed", status_code |-> lastAnswer.status,
              reason |-> "validation_failed"]

C22_DistinctUrls(l) == \A i, j \in 1..Len(l) : l[i].url = l[j].url => i = j

C22_FirstWins(given, topics) ==
    \A i \in 1..Len(topics) :
        \E k \in 1..Len(given) :
            /\ given[k] = topics[i]
            /\ \A j \in 1..(k - 1) : given[j].url # given[k].url

C22_Sorted(topics) ==
    \A i, j \in 1..Len(topics) :
        i < j => \/ topics[i].depth < topics[j].depth
                 \/ /\ topics[i].depth = topics[j].depth
                    /\ topics[i].url < topics[j].url

C22_OrganizerNormalises ==
    probe.fn = "organize" =>
        /\ \A n \in 1..Len(probe_out) :
             /\ C22_DistinctUrls(probe_out[n].topics)
             /\ C22_FirstWins(probe_out[n].given, probe_out[n].topics)
             /\ C22_Sorted(probe_out[n].topics)
        /\ Len(probe_out) = 2 =>
             /\ probe_out[1].given = probe_out[2].given
                  => probe_out[1].topics = probe_out[2].topics
             /\ C22_DistinctUrls(probe.records)
                  => probe_out[1].topics = probe_out[2].topics

\* three records of distinct URLs, deepest first, handed over in two
\* different orders
C22_Witness ==
    /\ probe.fn = "organize" /\ probe_done
    /\ Len(probe.records) = MaxRecords
    /\ C22_DistinctUrls(probe.records)
    /\ probe.records[1].depth > probe.records[2].depth
    /\ probe_out[1].given # probe_out[2].given
    /\ Len(probe_out[1].topics) >= 2
    /\ probe_out[1].topics # probe_out[1].given

\* C23: when the browser extractor produced the result, every record has
\* depth 1, the URLs of the records are pairwise distinct, only the first
\* max_urls_per_level rendered links are considered, the skipped and the
\* unverified lists are empty, and no URL is validated: nothing is checked
\* over the network and neither validation cache changes.
C23_ByBrowser(c) == extraction_mode[c] = "browser" /\ pc[c] \in {"done", "returned"}

C23_Considered(c) ==
    { nav_links[c][i] : i \in 1..Len(nav_links[c]) } \ 
        { nav_links[c][i] : i \in (MaxUrlsPerLevel + 1)..Len(nav_links[c]) }

C23_BrowserModeRecords ==
    /\ [](\A c \in Crawls : C23_ByBrowser(c) =>
            /\ \A i \in 1..Len(verified_records[c]) : verified_records[c][i].depth = 1
            /\ \A i, j \in 1..Len(verified_records[c]) :
                  verified_records[c][i].url = verified_records[c][j].url => i = j
            /\ Len(verified_records[c]) <= MaxUrlsPerLevel
            /\ RecordUrls(c) = C23_Considered(c)
            /\ skipped_links[c] = <<>> /\ unverified_links[c] = <<>>
            /\ metadata[c].failed = 0 /\ metadata[c].unverified = 0
            /\ pc[c] = "returned" =>
                  result[c].skippedLinks = <<>> /\ result[c].unverifiedLinks = <<>>
            /\ \A u \in Urls : net_checks[c][u] = 0 /\ per_request_cache[c][u] = NoRecord)
    /\ [][\A c \in Crawls :
            (pc[c] # "off" /\ extraction_mode'[c] = "browser") =>
                /\ cache' = cache
                /\ per_request_cache'[c] = per_request_cache[c]]_vars

\* the rendered page had more links than max_urls_per_level
C23_Witness ==
    \E c \in Crawls :
        /\ C23_ByBrowser(c)
        /\ pc[c] = "returned"
        /\ Len(nav_links[c]) > MaxUrlsPerLevel
        /\ Len(verified_records[c]) = MaxUrlsPerLevel
        /\ cache # <<>>

\* C24: _is_relevant_link answers true only for http/https candidates whose
\* registrable domain, the last two labels of the host, is that of the
\* origin: subdomains of the origin's domain pass, other domains do not; a
\* candidate with the origin's path and a fragment is rejected.  So
\* (evil.com/x, example.com) is false, (docs.example.com/x, example.com) is
\* true and (example.com/a#frag, example.com/a) is false.
C24_HostLabel(piece) == IF piece = "com:8080" THEN "com" ELSE piece

C24_Host(netloc) == [i \in 1..Len(netloc) |-> C24_HostLabel(netloc[i])]

C24_RegistrableDomain(netloc) ==
    LET host == C24_Host(netloc)
    IN IF Len(host) >= 2 THEN SubSeq(host, Len(host) - 1, Len(host)) ELSE host

C24_Url(netloc, path, fragment) ==
    [scheme |-> "https", netloc |-> netloc, path |-> path, fragment |-> fragment]

C24_RelevantOnlySameDomain ==
    (probe.fn = "relevant" /\ probe_done) =>
        /\ probe_out =>
             /\ probe.link.scheme \in {"http", "https"}
             /\ C24_RegistrableDomain(probe.link.netloc)
                  = C24_RegistrableDomain(probe.main.netloc)
        /\ (probe.link.path = probe.main.path /\ probe.link.fragment # "")
             => ~probe_out
        /\ (/\ probe.link.scheme \in {"http", "https"}
            /\ probe.main.netloc = <<"example", "com">>
            /\ probe.link.netloc \in {<<"example", "com">>, <<"docs", "example", "com">>}
            /\ probe.link.path \in {"/x", "/js"}) => probe_out
        /\ (/\ probe.link = C24_Url(<<"evil", "com">>, "/x", "")
            /\ probe.main = C24_Url(<<"example", "com">>, "", "")) => ~probe_out
        /\ (/\ probe.link = C24_Url(<<"docs", "example", "com">>, "/x", "")
            /\ probe.main = C24_Url(<<"example", "com">>, "", "")) => probe_out
        /\ (/\ probe.link = C24_Url(<<"example", "com">>, "/a", "frag")
            /\ probe.main = C24_Url(<<"example", "com">>, "/a", "")) => ~probe_out

\* a page of a subdomain of the origin is found relevant
C24_Witness ==
    /\ probe.fn = "relevant" /\ probe_done
    /\ probe.link = C24_Url(<<"docs", "example", "com">>, "/x", "")
    /\ probe.main = C24_Url(<<"example", "com">>, "", "")
    /\ probe_out

\* C25: the cache lock and the validation semaphore are never held together:
\* a coroutine that holds GLOBAL_CACHE_LOCK neither waits for a permit, nor
\* holds one, nor has a network check in progress; every permit and every
\* lock taken is given back on every path, an exception of the check
\* included; and the crawls never block each other for good.
C25_HoldsLock(c) == cacheLock = c

C25_InSemaphore(c) == pc[c] \in {"sem_wait", "sleep", "check"}

C25_PermitsOut == Cardinality({ c \in Crawls : pc[c] \in {"sleep", "check"} })

C25_LockAndSemaphoreApart ==
    /\ \A c \in Crawls :
          /\ C25_HoldsLock(c) <=> pc[c] \in {"in_get", "in_set"}
          /\ C25_HoldsLock(c) => ~C25_InSemaphore(c)
    /\ cacheLock \in Crawls \cup {0}
    /\ sem + C25_PermitsOut = SEMAPHORE_PERMITS
    /\ (\A c \in Crawls : pc[c] = "done") =>
          cacheLock = 0 /\ sem = SEMAPHORE_PERMITS
    /\ (\E c \in Crawls : pc[c] # "done") => ENABLED NextLock
    /\ \A c \in Crawls :
          pc[c] \in {"in_get", "in_set", "missed", "sleep", "check"} =>
             ENABLED (GetCachedValidationHit(c) \/ GetCachedValidationMiss(c)
                        \/ SetCachedValidationDone(c) \/ EnterSemaphore(c)
                        \/ JitterDone(c) \/ CheckReturns(c))

\* one crawl writes the shared cache under the lock while another one has a
\* network check in progress with the permit
C25_Witness ==
    \E c, d \in Crawls :
        /\ pc[c] = "in_set" /\ cacheLock = c
        /\ pc[d] = "check" /\ sem = 0
        /\ error_count[d] >= 1

\* C26 as stated: with concurrent crawls the shared cache entry of a URL is
\* written only by the first validation of the URL: a validation that
\* completes over the network finds no entry for its URL, and an entry that
\* stays in the cache keeps its record.
C26_WrittenOnlyByFirstValidation ==
    [][/\ \A c \in Crawls :
            (pc[c] = "check" /\ pc'[c] # "check") =>
                LinkInHand(c) \notin CacheKeys(cache)
       /\ \A u \in CacheKeys(cache) \cap CacheKeys(cache') :
            CacheLookup(cache', u) = CacheLookup(cache, u)]_vars

\* C26: with concurrent crawls every validation that completes over the
\* network writes the shared cache entry of its URL, whether the URL has an
\* entry or not, and leaves it the most recently used one holding its own
\* record; the record of an entry changes in no other way, a lookup that
\* hits never changes a record, and an entry leaves the cache only as the
\* least recently used one when a new URL is written to a full cache.
C26_LastWriteWins ==
    [][/\ \A c \in Crawls :
            (pc[c] = "check" /\ pc'[c] # "check") =>
                /\ last'.from = "network" /\ last'.crawl = c
                /\ cache'[Len(cache')] = [url |-> LinkInHand(c), rec |-> last'.rec]
       /\ \A u \in CacheKeys(cache') :
            (u \notin CacheKeys(cache) \/ CacheLookup(cache', u) # CacheLookup(cache, u)) =>
                /\ pc[last'.crawl] = "check" /\ pc'[last'.crawl] # "check"
                /\ last'.url = u
                /\ CacheLookup(cache', u) = last'.rec
       /\ \A u \in CacheKeys(cache) \ CacheKeys(cache') :
            /\ Len(cache) = MAX_GLOBAL_CACHE_SIZE
            /\ cache[1].url = u
            /\ pc[last'.crawl] = "check" /\ pc'[last'.crawl] # "check"
            /\ last'.url \notin CacheKeys(cache)]_vars

\* both crawls have checked the same URL over the network with different
\* answers, nothing was ever evicted, and the cache holds the later answer
C26_Witness ==
    \E u \in Urls, c, d \in Crawls :
        /\ c # d
        /\ net_checks[c][u] = 1 /\ net_checks[d][u] = 1
        /\ per_request_cache[c][u] # NoRecord
        /\ per_request_cache[d][u] # NoRecord
        /\ per_request_cache[c][u] # per_request_cache[d][u]
        /\ Len(cache) = 1
        /\ cache[1] = [url |-> u, rec |-> per_request_cache[d][u]]
        /\ last.crawl = d /\ last.url = u /\ last.from = "network"

\* C27: on a finite site and with max_depth >= 0, every fetch and every
\* validation returning in the end, the crawl terminates: the queue becomes
\* empty and the crawl returns; the pages taken from the queue, and so the
\* pages expanded, are at most one more than the verified records.
C27_Terminates ==
    /\ <>(pc[Solo] = "done" /\ queue[Solo] = <<>>)
    /\ [](pc[Solo] = "done" => [](pc[Solo] = "done"))
    /\ [](/\ max_depth[Solo] >= 0
          /\ Cardinality(expanded[Solo]) <= processed_count[Solo]
          /\ processed_count[Solo] + Len(queue[Solo])
                <= 1 + Len(verified_records[Solo]))

\* the crawl has returned after going down to max_depth over a site whose
\* pages link back to each other
C27_Witness ==
    /\ pc[Solo] = "done"
    /\ queue[Solo] = <<>>
    /\ max_depth[Solo] = BfsMaxDepth
    /\ processed_count[Solo] = 1 + Len(verified_records[Solo])
    /\ Len(verified_records[Solo]) = BfsUrls
    /\ error_count[Solo] = 0

\* C28: after every candidate link the loop has dealt with, and in the
\* metadata returned, totalChecked is verified + failed, verified is the
\* number of verified records, failed the number of skipped links, and
\* unverified the number of unverified links, which is 0 in strict mode and
\* equal to failed otherwise.
C28_CountersMatchLists ==
    \A c \in Crawls :
        LET m == metadata[c] IN
        /\ m.totalChecked = m.verified + m.failed
        /\ m.verified = Len(verified_records[c])
        /\ m.failed = Len(skipped_links[c])
        /\ m.unverified = Len(unverified_links[c])
        /\ m.unverified = IF strict_mode[c] THEN 0 ELSE m.failed

\* a strict and a non-strict crawl have both returned with verified and
\* failed links behind them
C28_Witness ==
    \E c, d \in Crawls :
        /\ strict_mode[c] /\ ~strict_mode[d]
        /\ pc[c] = "done" /\ pc[d] = "done"
        /\ metadata[c].verified >= 1 /\ metadata[c].failed >= 2
        /\ metadata[d].verified >= 1 /\ metadata[d].unverified >= 2

\* C29: within one crawl no URL is both in a verified record and in a skipped
\* link, also when concurrent crawls change the shared cache entry of the
\* URL in between: the record a crawl first got for a URL is the one it
\* keeps using.
C29_VerifiedAndSkippedDisjoint ==
    /\ [](\A c \in Crawls : RecordUrls(c) \cap SkippedUrls(c) = {})
    /\ [](\A c \in Crawls :
            /\ \A u \in RecordUrls(c) : per_request_cache[c][u].status = "verified"
            /\ \A u \in SkippedUrls(c) : per_request_cache[c][u].status = "failed")
    /\ [][\A c \in Crawls : \A u \in Urls :
            per_request_cache[c][u] # NoRecord =>
                per_request_cache'[c][u] = per_request_cache[c][u]]_vars

\* a crawl has just skipped a URL for the second time on its own record of
\* it, while the shared cache, written by the other crawl, says verified
C29_Witness ==
    \E c \in Crawls :
        /\ last.crawl = c /\ last.from = "local"
        /\ last.rec.status = "failed"
        /\ Cardinality({ i \in 1..Len(skipped_links[c]) :
                           skipped_links[c][i].url = last.url }) >= 2
        /\ last.url \in CacheKeys(cache)
        /\ CacheLookup(cache, last.url).status = "verified"
        /\ verified_records[c] # <<>>

\* C30: within one crawl a failed URL is at most once among the
\* skipped links and among the unverified links, and is counted at most once
\* in metadata.failed and metadata.totalChecked, however many expanded pages
\* link to it.
C30_Times(links, u) == Cardinality({ i \in 1..Len(links) : links[i].url = u })

C30_FailedUrlListedOnce ==
    \A c \in Crawls :
        /\ \A u \in Urls :
              /\ C30_Times(skipped_links[c], u) <= 1
              /\ C30_Times(unverified_links[c], u) <= 1
        /\ metadata[c].failed = Cardinality(SkippedUrls(c))
        /\ metadata[c].totalChecked
              = Cardinality(RecordUrls(c)) + Cardinality(SkippedUrls(c))

====
